---- MODULE Spec2Model ----
(***************************************************************************)
(* Scene lifecycle (genesis/engine/scene.py) and the rasterizer context's  *)
(* node registry and resync protocol (genesis/vis/rasterizer_context.py).  *)
(*                                                                         *)
(* Every method is an operator from a program state (a record of all the   *)
(* fields of the scene, the simulator, the visualizer and the context) to  *)
(* the program state it leaves behind.  A raised exception is the field    *)
(* exc: once it is set, the statements that follow are skipped.  An action *)
(* is one call of a public method on the current state.                    *)
(***************************************************************************)
EXTENDS Integers, Sequences, FiniteSets, TLC

\* ---------------------------------------------------------------- bounds
MaxEnvs == 2
MaxT == 2
MaxVal == 2
MaxEntities == 1
MaxAux == 1
MaxDebug == 2
MaxCursor == 1

\* ----------------------------------------------------------------- state
VARIABLES
  is_built, forward_ready, backward_ready, t,
  n_envs, B, env_spacing, n_envs_per_row, envs_offset, init_state, emitters,
  requires_grad, entities, links, force_fields, sim_state,
  cameras, has_raytracer, mesh_lights,
  segmentation_level, show_world_frame, show_link_frame, show_cameras,
  ctx_t, scene_nodes, world_frame_node, world_frame_shown,
  link_frame_nodes, link_frame_shown, frustum_nodes, camera_frustum_shown,
  rigid_nodes, static_nodes, dynamic_nodes, external_nodes,
  seg_key_map, seg_idxc_map, seg_node_map, seg_colors, buffer,
  ckpt_file,
  op, args, exc, calls, n_steps

vars == << is_built, forward_ready, backward_ready, t,
           n_envs, B, env_spacing, n_envs_per_row, envs_offset,
           init_state, emitters,
           requires_grad, entities, links, force_fields, sim_state,
           cameras, has_raytracer, mesh_lights,
           segmentation_level, show_world_frame, show_link_frame, show_cameras,
           ctx_t, scene_nodes, world_frame_node, world_frame_shown,
           link_frame_nodes, link_frame_shown, frustum_nodes,
           camera_frustum_shown,
           rigid_nodes, static_nodes, dynamic_nodes, external_nodes,
           seg_key_map, seg_idxc_map, seg_node_map, seg_colors, buffer,
           ckpt_file,
           op, args, exc, calls, n_steps >>

\* Markers for "no value": None is Python's None, NoAttr an attribute that
\* has not been assigned yet, NoExc a call that returned normally.
None == "None"
NoAttr == -2
NoNode == 0
NoExc == "ok"
NoState == [kind |-> "None"]
NoFile == [kind |-> "None"]

\* The failure classes of the specification's taxonomy; the code raises all
\* of them through gs.raise_exception except the assert of line 141.
InvalidStateError == "InvalidStateError"
ConfigError == "ConfigError"
RangeError == "RangeError"
DuplicateNameError == "DuplicateNameError"
UnsupportedFeatureError == "UnsupportedFeatureError"

\* The program state as one record.
St ==
  [ is_built |-> is_built, forward_ready |-> forward_ready,
    backward_ready |-> backward_ready, t |-> t,
    n_envs |-> n_envs, B |-> B, env_spacing |-> env_spacing,
    n_envs_per_row |-> n_envs_per_row, envs_offset |-> envs_offset,
    init_state |-> init_state,
    emitters |-> emitters,
    requires_grad |-> requires_grad, entities |-> entities, links |-> links,
    force_fields |-> force_fields, sim_state |-> sim_state,
    cameras |-> cameras, has_raytracer |-> has_raytracer,
    mesh_lights |-> mesh_lights,
    segmentation_level |-> segmentation_level,
    show_world_frame |-> show_world_frame,
    show_link_frame |-> show_link_frame, show_cameras |-> show_cameras,
    ctx_t |-> ctx_t, scene_nodes |-> scene_nodes,
    world_frame_node |-> world_frame_node,
    world_frame_shown |-> world_frame_shown,
    link_frame_nodes |-> link_frame_nodes,
    link_frame_shown |-> link_frame_shown,
    frustum_nodes |-> frustum_nodes,
    camera_frustum_shown |-> camera_frustum_shown,
    rigid_nodes |-> rigid_nodes, static_nodes |-> static_nodes,
    dynamic_nodes |-> dynamic_nodes, external_nodes |-> external_nodes,
    seg_key_map |-> seg_key_map, seg_idxc_map |-> seg_idxc_map,
    seg_node_map |-> seg_node_map, seg_colors |-> seg_colors,
    buffer |-> buffer,
    ckpt_file |-> ckpt_file,
    op |-> op, args |-> args, exc |-> exc, calls |-> calls,
    n_steps |-> n_steps ]

\* A call starts with no exception pending and an empty log of the calls it
\* makes to its collaborators.
Begin(name) ==
  [St EXCEPT !.op = name, !.args = << >>, !.exc = NoExc, !.calls = << >>]

\* A call whose arguments the properties refer to records them.
BeginWith(name, arguments) == [Begin(name) EXCEPT !.args = arguments]

\* The state a call leaves behind becomes the current state.
Commit(r) ==
  /\ is_built' = r.is_built
  /\ forward_ready' = r.forward_ready
  /\ backward_ready' = r.backward_ready
  /\ t' = r.t
  /\ n_envs' = r.n_envs
  /\ B' = r.B
  /\ env_spacing' = r.env_spacing
  /\ n_envs_per_row' = r.n_envs_per_row
  /\ envs_offset' = r.envs_offset
  /\ init_state' = r.init_state
  /\ emitters' = r.emitters
  /\ requires_grad' = r.requires_grad
  /\ entities' = r.entities
  /\ links' = r.links
  /\ force_fields' = r.force_fields
  /\ sim_state' = r.sim_state
  /\ cameras' = r.cameras
  /\ has_raytracer' = r.has_raytracer
  /\ mesh_lights' = r.mesh_lights
  /\ segmentation_level' = r.segmentation_level
  /\ show_world_frame' = r.show_world_frame
  /\ show_link_frame' = r.show_link_frame
  /\ show_cameras' = r.show_cameras
  /\ link_frame_nodes' = r.link_frame_nodes
  /\ link_frame_shown' = r.link_frame_shown
  /\ frustum_nodes' = r.frustum_nodes
  /\ camera_frustum_shown' = r.camera_frustum_shown
  /\ ctx_t' = r.ctx_t
  /\ scene_nodes' = r.scene_nodes
  /\ world_frame_node' = r.world_frame_node
  /\ world_frame_shown' = r.world_frame_shown
  /\ rigid_nodes' = r.rigid_nodes
  /\ static_nodes' = r.static_nodes
  /\ dynamic_nodes' = r.dynamic_nodes
  /\ external_nodes' = r.external_nodes
  /\ seg_key_map' = r.seg_key_map
  /\ seg_idxc_map' = r.seg_idxc_map
  /\ seg_node_map' = r.seg_node_map
  /\ seg_colors' = r.seg_colors
  /\ buffer' = r.buffer
  /\ ckpt_file' = r.ckpt_file
  /\ op' = r.op
  /\ args' = r.args
  /\ exc' = r.exc
  /\ calls' = r.calls
  /\ n_steps' = r.n_steps

Ok(s) == s.exc = NoExc

raise_exception(s, kind) == IF Ok(s) THEN [s EXCEPT !.exc = kind] ELSE s

Log(s, call) == [s EXCEPT !.calls = Append(@, call)]

\* The log entry of a method of the context that is entered by a call that
\* is still running.
Enter(s, name) == IF Ok(s) THEN Log(s, <<name>>) ELSE s

\* A finite map as a function; Put overrides or adds one key.
EmptyMap == [x \in {} |-> 0]
Put(m, k, v) == (k :> v) @@ m
Del(m, k) == [x \in (DOMAIN m) \ {k} |-> m[x]]
Values(m) == {m[k] : k \in DOMAIN m}
RangeOf(q) == {q[i] : i \in 1..Len(q)}

\* ------------------------------------------------------------ decorators
\* gs.assert_unbuilt / gs.assert_built wrap a method: the body runs only if
\* the scene is in the required phase.
assert_unbuilt(s) ==
  IF s.is_built THEN raise_exception(s, InvalidStateError) ELSE s

assert_built(s) ==
  IF ~s.is_built THEN raise_exception(s, InvalidStateError) ELSE s

\* ------------------------------------------------------------- simulator
\* The solver family an entity of a material is routed to.
Family(material) ==
  CASE material = "Rigid" -> "rigid"
    [] material = "Avatar" -> "avatar"
    [] material = "Tool" -> "tool"
    [] material \in {"MPM.Liquid", "MPM.Sand", "MPM.Snow", "MPM.Elastic"} -> "mpm"
    [] material \in {"SPH.Liquid"} -> "sph"
    [] material \in {"PBD.Liquid", "PBD.Particle", "PBD.Cloth", "PBD.Elastic"} -> "pbd"
    [] material \in {"FEM.Elastic"} -> "fem"
    [] material = "SF.Smoke" -> "sf"
    [] OTHER -> "hybrid"

IsRigidEntity(e) == Family(e.material) \in {"rigid", "avatar"}

active_solvers(s) == {Family(s.entities[i].material) : i \in 1..Len(s.entities)}

Envs(s) == 0..(s.B - 1)

\* Simulator._add_entity: the entity joins its solver; a rigid entity brings
\* one link, a root of its kinematic tree.
Sim_add_entity(s, morph, material, vis_mode, visualize_contact) ==
  LET e == [material |-> material, morph |-> morph, vis_mode |-> vis_mode,
            visualize_contact |-> visualize_contact]
      l == [entity |-> Len(s.entities) + 1, idx |-> Len(s.links), name |-> "base",
            parent_idx |-> -1, child_idxs |-> << >>,
            visualize_contact |-> visualize_contact]
  IN [s EXCEPT !.entities = Append(@, e),
               !.links = IF IsRigidEntity(e) THEN Append(@, l) ELSE @]

Sim_add_force_field(s, force_field) ==
  [s EXCEPT !.force_fields = Append(@, force_field)]

\* Simulator.build: one state buffer per active solver and environment.
Sim_build(s) ==
  IF ~Ok(s) THEN s
  ELSE Log([s EXCEPT !.sim_state =
              [f \in active_solvers(s) |-> [e \in Envs(s) |-> 0]],
                     !.n_steps = 0],
           <<"sim.build">>)

\* Simulator.step: every active solver advances every environment one tick.
Sim_step(s) ==
  IF ~Ok(s) THEN s
  ELSE Log([s EXCEPT !.sim_state =
              [f \in DOMAIN @ |-> [e \in DOMAIN @[f] |-> @[f][e] + 1]],
                     !.n_steps = @ + 1],
           <<"sim.step", s.t>>)

Sim_get_state(s) == [kind |-> "SimState", solvers |-> s.sim_state]

Sim_collect_output_grads(s) ==
  IF ~Ok(s) THEN s ELSE Log(s, <<"sim.collect_output_grads", s.t>>)

Sim_step_grad(s) ==
  IF ~Ok(s) THEN s ELSE Log(s, <<"sim._step_grad", s.t>>)

\* ---------------------------------------------------- rasterizer context
\* pyrender.Scene.add: a new node object, distinct from every live node and
\* from every node a registry still refers to.
ReferencedNodes(s) ==
  s.scene_nodes \cup Values(s.rigid_nodes) \cup Values(s.static_nodes)
    \cup Values(s.external_nodes) \cup RangeOf(s.dynamic_nodes)
    \cup Values(s.link_frame_nodes) \cup Values(s.frustum_nodes)
    \cup {s.world_frame_node}

NewNode(s) ==
  CHOOSE n \in 1..(Cardinality(ReferencedNodes(s)) + 1) :
    /\ n \notin ReferencedNodes(s)
    /\ \A m \in 1..(n - 1) : m \in ReferencedNodes(s)

add_node(s) ==
  Log([s EXCEPT !.scene_nodes = @ \cup {NewNode(s)}], <<"scene.add", NewNode(s)>>)

remove_node(s, node) ==
  Log([s EXCEPT !.scene_nodes = @ \ {node}], <<"scene.remove_node", node>>)

RasterizerContext_reset(s) == IF ~Ok(s) THEN s ELSE [s EXCEPT !.ctx_t = -1]

seg_idxc_to_idxc_rgb(seg_idxc) ==
  << (seg_idxc \div 65536) % 256, (seg_idxc \div 256) % 256, seg_idxc % 256 >>

\* dict.setdefault(seg_key, len(seg_key_map)), then the reverse entry.
seg_key_to_idxc_value(s, seg_key) ==
  IF seg_key \in DOMAIN s.seg_key_map THEN s.seg_key_map[seg_key]
  ELSE Cardinality(DOMAIN s.seg_key_map)

\* seg_key_to_idxc with a plain assignment in place of setdefault: a key
\* seen before is given a new id.
seg_key_to_idxc_fresh(s, seg_key) ==
  LET seg_idxc == Cardinality(DOMAIN s.seg_key_map)
  IN [s EXCEPT !.seg_key_map = Put(@, seg_key, seg_idxc),
               !.seg_idxc_map = Put(@, seg_idxc, seg_key)]

seg_key_to_idxc(s, seg_key) ==
  LET seg_idxc == seg_key_to_idxc_value(s, seg_key)
  IN [s EXCEPT !.seg_key_map = Put(@, seg_key, seg_idxc),
               !.seg_idxc_map = Put(@, seg_idxc, seg_key)]

create_node_seg(s, seg_key, seg_node) ==
  LET seg_idxc == seg_key_to_idxc_value(s, seg_key)
      s1 == seg_key_to_idxc(s, seg_key)
  IN IF seg_node # NoNode
     THEN [s1 EXCEPT !.seg_node_map = Put(@, seg_node, seg_idxc_to_idxc_rgb(seg_idxc))]
     ELSE s1

remove_node_seg(s, seg_node) ==
  [s EXCEPT !.seg_node_map =
     IF seg_node \in DOMAIN @ THEN Del(@, seg_node) ELSE @]

\* add_rigid_node: the node is added and registered before the segmentation
\* level is looked at.
add_rigid_node(s, geom_uid, entity_idx, link_idx) ==
  IF ~Ok(s) THEN s
  ELSE
    LET rigid_node == NewNode(s)
        s1 == [add_node(s) EXCEPT !.rigid_nodes = Put(@, geom_uid, rigid_node)]
    IN CASE s.segmentation_level = "geom" -> raise_exception(s1, "AssertionError")
         [] s.segmentation_level = "link" ->
              create_node_seg(s1, <<entity_idx, link_idx>>, rigid_node)
         [] s.segmentation_level = "entity" ->
              create_node_seg(s1, <<entity_idx>>, rigid_node)
         [] OTHER -> raise_exception(s1, UnsupportedFeatureError)

add_static_node(s, entity_uid, entity_idx) ==
  IF ~Ok(s) THEN s
  ELSE
    LET static_node == NewNode(s)
        s1 == [add_node(s) EXCEPT !.static_nodes = Put(@, entity_uid, static_node)]
    IN create_node_seg(s1, <<entity_idx>>, static_node)

\* add_dynamic_node with a segmentation key of its own for every frame.
add_dynamic_node_keyed_by_frame(s, entity_idx, has_obj) ==
  IF ~Ok(s) THEN s
  ELSE
    LET dynamic_node == IF has_obj THEN NewNode(s) ELSE NoNode
        s1 == IF has_obj
              THEN [add_node(s) EXCEPT !.dynamic_nodes = Append(@, dynamic_node)]
              ELSE s
    IN IF entity_idx # -1
       THEN create_node_seg(s1, <<entity_idx, s.ctx_t>>, dynamic_node)
       ELSE s1

\* add_dynamic_node(entity, obj): has_obj is "obj is not None", entity_idx is
\* -1 when entity is None.
add_dynamic_node(s, entity_idx, has_obj) ==
  IF ~Ok(s) THEN s
  ELSE
    LET dynamic_node == IF has_obj THEN NewNode(s) ELSE NoNode
        s1 == IF has_obj
              THEN [add_node(s) EXCEPT !.dynamic_nodes = Append(@, dynamic_node)]
              ELSE s
    IN IF entity_idx # -1 THEN create_node_seg(s1, <<entity_idx>>, dynamic_node)
       ELSE s1

\* add_external_node without the test for a name in use: the registry entry
\* of the name is overwritten.
add_external_node_overwriting(s, name) ==
  IF ~Ok(s) THEN s
  ELSE IF name = None \/ name = "" THEN raise_exception(s, ConfigError)
  ELSE [add_node(s) EXCEPT !.external_nodes = Put(@, name, NewNode(s))]

\* add_external_node(obj): name is obj.name, None when obj has no name.
add_external_node(s, name) ==
  IF ~Ok(s) THEN s
  ELSE IF name = None \/ name = "" THEN raise_exception(s, ConfigError)
  ELSE IF name \in DOMAIN s.external_nodes THEN raise_exception(s, DuplicateNameError)
  ELSE [add_node(s) EXCEPT !.external_nodes = Put(@, name, NewNode(s))]

RECURSIVE clear_dynamic_nodes_from(_, _)
clear_dynamic_nodes_from(s, i) ==
  IF i > Len(s.dynamic_nodes) THEN s
  ELSE clear_dynamic_nodes_from(
         remove_node(remove_node_seg(s, s.dynamic_nodes[i]), s.dynamic_nodes[i]),
         i + 1)

\* clear_dynamic_nodes without the call of remove_node_seg.
clear_dynamic_nodes_keeping_seg(s) ==
  IF ~Ok(s) THEN s
  ELSE [Enter(s, "clear_dynamic_nodes") EXCEPT
          !.scene_nodes = @ \ RangeOf(s.dynamic_nodes),
          !.dynamic_nodes = << >>]

clear_dynamic_nodes(s) ==
  IF ~Ok(s) THEN s
  ELSE [clear_dynamic_nodes_from(Enter(s, "clear_dynamic_nodes"), 1) EXCEPT
          !.dynamic_nodes = << >>]

\* clear_external_node without the test for the name: the lookup of a name
\* that is not registered is a KeyError.
clear_external_node_unguarded(s, name) ==
  IF ~Ok(s) THEN s
  ELSE IF name \in DOMAIN s.external_nodes
  THEN [remove_node(s, s.external_nodes[name]) EXCEPT
          !.external_nodes = Del(@, name)]
  ELSE raise_exception(s, "KeyError")

clear_external_node(s, name) ==
  IF ~Ok(s) THEN s
  ELSE IF name \in DOMAIN s.external_nodes
  THEN [remove_node(s, s.external_nodes[name]) EXCEPT
          !.external_nodes = Del(@, name)]
  ELSE s

clear_external_nodes(s) ==
  IF ~Ok(s) THEN s
  ELSE [s EXCEPT !.scene_nodes = @ \ Values(s.external_nodes),
                 !.external_nodes = EmptyMap]

on_world_frame(s) ==
  IF ~Ok(s) \/ s.world_frame_shown THEN s
  ELSE [add_node(s) EXCEPT !.world_frame_node = NewNode(s),
                           !.world_frame_shown = TRUE]

off_world_frame(s) ==
  IF ~Ok(s) \/ ~s.world_frame_shown THEN s
  ELSE [remove_node(s, s.world_frame_node) EXCEPT
          !.world_frame_node = NoNode, !.world_frame_shown = FALSE]

\* The links of the rigid solver, by their position in the list of links,
\* which stands for the uid.
RigidLinks(s) ==
  {k \in 1..Len(s.links) : Family(s.entities[s.links[k].entity].material) = "rigid"}

RECURSIVE on_link_frame_from(_, _)
on_link_frame_from(s, k) ==
  IF k > Len(s.links) THEN s
  ELSE on_link_frame_from(
         IF k \in RigidLinks(s)
         THEN [add_node(s) EXCEPT !.link_frame_nodes = Put(@, k, NewNode(s))]
         ELSE s,
         k + 1)

on_link_frame(s) ==
  IF ~Ok(s) \/ s.link_frame_shown THEN s
  ELSE [on_link_frame_from(s, 1) EXCEPT !.link_frame_shown = TRUE]

off_link_frame(s) ==
  IF ~Ok(s) \/ ~s.link_frame_shown THEN s
  ELSE [s EXCEPT !.scene_nodes = @ \ Values(s.link_frame_nodes),
                 !.link_frame_nodes = EmptyMap,
                 !.link_frame_shown = FALSE]

RECURSIVE on_camera_frustum_from(_, _)
on_camera_frustum_from(s, k) ==
  IF k > Len(s.cameras) THEN s
  ELSE on_camera_frustum_from(
         [add_node(s) EXCEPT !.frustum_nodes = Put(@, s.cameras[k], NewNode(s))],
         k + 1)

on_camera_frustum(s) ==
  IF ~Ok(s) \/ s.camera_frustum_shown THEN s
  ELSE [on_camera_frustum_from(s, 1) EXCEPT !.camera_frustum_shown = TRUE]

\* off_camera_frustum looks the node of every camera up before it clears
\* the registry.
off_camera_frustum(s) ==
  IF ~Ok(s) \/ ~s.camera_frustum_shown THEN s
  ELSE IF \E k \in 1..Len(s.cameras) : s.cameras[k] \notin DOMAIN s.frustum_nodes
  THEN raise_exception(s, "KeyError")
  ELSE [s EXCEPT !.scene_nodes = @ \ Values(s.frustum_nodes),
                 !.frustum_nodes = EmptyMap,
                 !.camera_frustum_shown = FALSE]

\* An entity's position in its list is its uid; its idx counts from 0.
EntityIdx(i) == i - 1

LinkIdxOf(s, i) ==
  (CHOOSE k \in 1..Len(s.links) : s.links[k].entity = i) - 1

\* The geoms a rigid or avatar entity is drawn with: vgeoms in "visual"
\* mode, collision geoms otherwise; one of each per entity.
GeomUid(s, i) ==
  IF s.entities[i].vis_mode = "visual" THEN <<"vgeom", i>> ELSE <<"geom", i>>

\* The body of the loop of on_tool, on_rigid, ..., on_fem for entity i.
\* A tool entity added with a morph that places nothing has no mesh
\* (tool_entity.mesh is None, line 268) and gets no node.
on_entity(s, i) ==
  LET e == s.entities[i]
      f == Family(e.material)
  IN CASE f = "tool" ->
            IF e.morph # "Nowhere" THEN add_static_node(s, i, EntityIdx(i)) ELSE s
       [] f \in {"rigid", "avatar"} ->
            add_rigid_node(s, GeomUid(s, i), EntityIdx(i), LinkIdxOf(s, i))
       [] f = "mpm" ->
            CASE e.vis_mode = "recon" -> add_dynamic_node(s, EntityIdx(i), FALSE)
              [] e.vis_mode = "particle" -> add_static_node(s, i, EntityIdx(i))
              [] e.vis_mode = "visual" -> add_dynamic_node(s, EntityIdx(i), TRUE)
              [] OTHER -> s
       [] f = "sph" ->
            CASE e.vis_mode = "recon" -> add_dynamic_node(s, EntityIdx(i), FALSE)
              [] e.vis_mode = "particle" -> add_static_node(s, i, EntityIdx(i))
              [] OTHER -> s
       [] f = "pbd" ->
            CASE e.vis_mode = "recon" -> add_dynamic_node(s, EntityIdx(i), FALSE)
              [] e.vis_mode \in {"particle", "visual"} ->
                   add_static_node(s, i, EntityIdx(i))
              [] OTHER -> s
       [] f = "fem" ->
            IF e.vis_mode = "visual" THEN add_static_node(s, i, EntityIdx(i)) ELSE s
       [] OTHER -> s

RECURSIVE on_family_from(_, _, _)
on_family_from(s, f, i) ==
  IF ~Ok(s) \/ i > Len(s.entities) THEN s
  ELSE on_family_from(
         IF Family(s.entities[i].material) = f THEN on_entity(s, i) ELSE s,
         f, i + 1)

on_tool(s) == on_family_from(s, "tool", 1)
on_rigid(s) == on_family_from(s, "rigid", 1)
on_avatar(s) == on_family_from(s, "avatar", 1)
on_mpm(s) == on_family_from(s, "mpm", 1)
on_sph(s) == on_family_from(s, "sph", 1)
on_pbd(s) == on_family_from(s, "pbd", 1)
on_fem(s) == on_family_from(s, "fem", 1)

generate_seg_vars(s) ==
  IF ~Ok(s) THEN s
  ELSE [s EXCEPT !.seg_colors = Cardinality(DOMAIN s.seg_key_map)]

\* RasterizerContext.build: a new renderer scene, then the frames and the
\* nodes of every family, then the colour table.
RasterizerContext_build(s) ==
  IF ~Ok(s) THEN s
  ELSE
    LET s0 == Log([s EXCEPT !.scene_nodes = {}], <<"update_visual_states">>)
        s1 == IF s0.show_world_frame THEN on_world_frame(s0) ELSE s0
        s2 == IF s1.show_link_frame THEN on_link_frame(s1) ELSE s1
        s3 == IF s2.show_cameras THEN on_camera_frustum(s2) ELSE s2
    IN generate_seg_vars(
         on_fem(on_pbd(on_sph(on_mpm(on_avatar(on_rigid(on_tool(s3))))))))

\* RasterizerContext.destroy: the dynamic nodes, then the nodes of the
\* link-frame, frustum, rigid, static and external registries.
RasterizerContext_destroy(s) ==
  IF ~Ok(s) THEN s
  ELSE
    LET s1 == clear_dynamic_nodes(s)
    IN [s1 EXCEPT
          !.scene_nodes =
             @ \ (Values(s1.link_frame_nodes) \cup Values(s1.frustum_nodes)
                    \cup Values(s1.rigid_nodes) \cup Values(s1.static_nodes)
                    \cup Values(s1.external_nodes)),
          !.link_frame_nodes = EmptyMap, !.frustum_nodes = EmptyMap,
          !.rigid_nodes = EmptyMap, !.static_nodes = EmptyMap,
          !.external_nodes = EmptyMap]

\* A buffer update: the payload for a buffer slot of a node.  The payload is
\* kept as its kind (poses of the environments, particle transforms).
SetBuffer(s, node, slot, payload) ==
  [s EXCEPT !.buffer = Put(@, <<node, slot>>, payload)]

\* The body of the loop of update_tool, ..., update_fem for entity i.  A
\* registry lookup of a key that is not there is a KeyError.
update_entity(s, i) ==
  LET e == s.entities[i]
      f == Family(e.material)
      static_update ==
        IF i \in DOMAIN s.static_nodes
        THEN SetBuffer(s, s.static_nodes[i], "model", "particles")
        ELSE raise_exception(s, "KeyError")
  IN CASE f = "tool" ->
            IF i \in DOMAIN s.static_nodes THEN s
            ELSE raise_exception(s, "KeyError")
       [] f = "rigid" ->
            IF GeomUid(s, i) \in DOMAIN s.rigid_nodes
            THEN SetBuffer(s, s.rigid_nodes[GeomUid(s, i)], "model", "poses")
            ELSE raise_exception(s, "KeyError")
       [] f = "avatar" ->
            IF GeomUid(s, i) \in DOMAIN s.rigid_nodes
            THEN raise_exception(s, "AttributeError")
            ELSE raise_exception(s, "KeyError")
       [] f = "mpm" ->
            CASE e.vis_mode \in {"recon", "visual"} ->
                   add_dynamic_node(s, EntityIdx(i), TRUE)
              [] e.vis_mode = "particle" -> static_update
              [] OTHER -> s
       [] f = "sph" ->
            CASE e.vis_mode = "recon" -> add_dynamic_node(s, EntityIdx(i), TRUE)
              [] e.vis_mode = "particle" -> static_update
              [] OTHER -> s
       [] f = "pbd" ->
            CASE e.vis_mode = "recon" -> add_dynamic_node(s, EntityIdx(i), TRUE)
              [] e.vis_mode \in {"particle", "visual"} -> static_update
              [] OTHER -> s
       [] f = "fem" ->
            IF e.vis_mode = "visual" THEN static_update ELSE s
       [] OTHER -> s

RECURSIVE update_family_from(_, _, _)
update_family_from(s, f, i) ==
  IF ~Ok(s) \/ i > Len(s.entities) THEN s
  ELSE update_family_from(
         IF Family(s.entities[i].material) = f THEN update_entity(s, i) ELSE s,
         f, i + 1)

update_tool(s) == update_family_from(Enter(s, "update_tool"), "tool", 1)
update_rigid(s) == update_family_from(Enter(s, "update_rigid"), "rigid", 1)
update_avatar(s) == update_family_from(Enter(s, "update_avatar"), "avatar", 1)
update_mpm(s) == update_family_from(Enter(s, "update_mpm"), "mpm", 1)
update_sph(s) == update_family_from(Enter(s, "update_sph"), "sph", 1)
update_pbd(s) == update_family_from(Enter(s, "update_pbd"), "pbd", 1)
update_fem(s) == update_family_from(Enter(s, "update_fem"), "fem", 1)

\* update_link_frame: the pose of the frame of every link of the rigid
\* solver, when the frames are shown.
RECURSIVE update_link_frame_from(_, _)
update_link_frame_from(s, k) ==
  IF ~Ok(s) \/ k > Len(s.links) THEN s
  ELSE update_link_frame_from(
         IF k \notin RigidLinks(s) THEN s
         ELSE IF k \in DOMAIN s.link_frame_nodes
         THEN SetBuffer(s, s.link_frame_nodes[k], "model", "poses")
         ELSE raise_exception(s, "KeyError"),
         k + 1)

update_link_frame(s) ==
  IF ~Ok(s) THEN s
  ELSE IF s.link_frame_shown /\ "rigid" \in active_solvers(s)
  THEN update_link_frame_from(Enter(s, "update_link_frame"), 1)
  ELSE Enter(s, "update_link_frame")

\* draw_debug_arrow(persistent=False) without the test of the length.
draw_transient_arrow_any_length(s, length) == add_dynamic_node(s, -1, TRUE)

\* draw_debug_arrow with persistent=True: the arrow is an external node.
draw_persistent_arrow(s, length) ==
  IF length > 0 THEN add_external_node(s, "arrow") ELSE s

\* draw_debug_arrow(persistent=False): an arrow of length 0 is not drawn.
draw_transient_arrow(s, length) ==
  IF length > 0 THEN add_dynamic_node(s, -1, TRUE) ELSE s

\* The two arrows of contact c for the end `side` of the contact.
contact_arrows(s, c, side) ==
  IF ~Ok(s) THEN s
  ELSE IF s.links[(IF side = "a" THEN c.link_a ELSE c.link_b) + 1].visualize_contact
  THEN draw_transient_arrow(draw_transient_arrow(s, c.force), c.normal)
  ELSE s

RECURSIVE contacts_from(_, _, _)
contacts_from(s, contacts, i) ==
  IF ~Ok(s) \/ i > Len(contacts) THEN s
  ELSE contacts_from(
         contact_arrows(contact_arrows(s, contacts[i], "a"), contacts[i], "b"),
         contacts, i + 1)

\* The collider's report has a leading batch dimension on a batched scene:
\* update_contact keeps the contacts of batch_idx 0.
first_env_contacts(s, contacts_info) ==
  IF s.n_envs > 0 THEN contacts_info[0] ELSE contacts_info

\* update_contact: contacts are the contacts of environment 0 that the
\* collider reports.
update_contact(s, contacts) ==
  IF ~Ok(s) THEN s
  ELSE IF "rigid" \in active_solvers(s)
          /\ \E k \in 1..Len(s.links) : s.links[k].visualize_contact
  THEN contacts_from(Log(Enter(s, "update_contact"), <<"get_contacts">>), contacts, 1)
  ELSE Enter(s, "update_contact")

\* RasterizerContext.update without the test of the time index: every call
\* runs the pass.
RasterizerContext_update_forced(s, contacts) ==
  IF ~Ok(s) THEN s
  ELSE IF s.ctx_t = NoAttr THEN raise_exception(s, "AttributeError")
  ELSE
    LET s1 == clear_dynamic_nodes([s EXCEPT !.ctx_t = s.t])
        s2 == Log(s1, <<"update_visual_states">>)
        s3 == Log(Log(s2, <<"_scene._bounds = None">>), <<"buffer.clear">>)
        s4 == [s3 EXCEPT !.buffer = EmptyMap]
    IN update_fem(update_pbd(update_sph(update_mpm(update_avatar(
         update_contact(update_rigid(update_tool(update_link_frame(s4))),
                        contacts))))))

\* RasterizerContext.update with the dynamic nodes cleared after the
\* families have been updated.
RasterizerContext_update_late_clear(s, contacts) ==
  IF ~Ok(s) THEN s
  ELSE IF s.ctx_t = NoAttr THEN raise_exception(s, "AttributeError")
  ELSE IF s.ctx_t >= s.t THEN s
  ELSE
    LET s2 == Log([s EXCEPT !.ctx_t = s.t], <<"update_visual_states">>)
        s3 == Log(Log(s2, <<"_scene._bounds = None">>), <<"buffer.clear">>)
        s4 == [s3 EXCEPT !.buffer = EmptyMap]
    IN clear_dynamic_nodes(
         update_fem(update_pbd(update_sph(update_mpm(update_avatar(
           update_contact(update_rigid(update_tool(update_link_frame(s4))),
                          contacts)))))))

\* RasterizerContext.update.
RasterizerContext_update(s, contacts) ==
  IF ~Ok(s) THEN s
  ELSE IF s.ctx_t = NoAttr THEN raise_exception(s, "AttributeError")
  ELSE IF s.ctx_t >= s.t THEN s
  ELSE
    LET s1 == clear_dynamic_nodes([s EXCEPT !.ctx_t = s.t])
        s2 == Log(s1, <<"update_visual_states">>)
        s3 == Log(Log(s2, <<"_scene._bounds = None">>), <<"buffer.clear">>)
        s4 == [s3 EXCEPT !.buffer = EmptyMap]
    IN update_fem(update_pbd(update_sph(update_mpm(update_avatar(
         update_contact(update_rigid(update_tool(update_link_frame(s4))),
                        contacts))))))

\* ----------------------------------------------------------- visualizer
\* Visualizer.reset, build, update and add_camera as the scene uses them:
\* each hands over to the context.
Visualizer_reset(s) == RasterizerContext_reset(s)

Visualizer_build(s) == RasterizerContext_build(s)

Visualizer_update(s, contacts) == RasterizerContext_update(s, contacts)

Visualizer_add_camera(s) == [s EXCEPT !.cameras = Append(@, Len(@) + 1)]

\* ------------------------------------------------------------- emitters
Emitter_reset(e) == [e EXCEPT !.next_particle = 0]

\* ------------------------------------------------- environment selectors
\* The positions Python's seq[lo:hi] selects in a sequence of length n.
SliceStart(n, k) == IF k < 0 THEN (IF k + n < 0 THEN 0 ELSE k + n)
                    ELSE (IF k > n THEN n ELSE k)

PySlice(n, lo, hi) ==
  LET a == SliceStart(n, lo)
      b == SliceStart(n, hi)
  IN [j \in 1..(IF b > a THEN b - a ELSE 0) |-> a + j - 1]

\* _sanitize_envs_idx without the test for a scene that is not
\* parallelized.
sanitize_envs_idx_any_scene(s, envs_idx, unsafe) ==
  CASE envs_idx.kind = "none" ->
         [exc |-> NoExc, sel |-> [j \in 1..s.B |-> j - 1]]
    [] envs_idx.kind = "slice" ->
         [exc |-> NoExc, sel |-> PySlice(s.B, envs_idx.lo, envs_idx.hi)]
    [] envs_idx.kind = "int" ->
         [exc |-> NoExc, sel |-> PySlice(s.B, envs_idx.k, envs_idx.k + 1)]
    [] envs_idx.kind = "list" ->
         IF unsafe THEN [exc |-> NoExc, sel |-> envs_idx.idxs]
         ELSE IF envs_idx.ndim # 1 THEN [exc |-> RangeError, sel |-> << >>]
         ELSE IF \E j \in 1..Len(envs_idx.idxs) :
                   envs_idx.idxs[j] < 0 \/ envs_idx.idxs[j] >= s.n_envs
         THEN [exc |-> RangeError, sel |-> << >>]
         ELSE [exc |-> NoExc, sel |-> envs_idx.idxs]

\* _sanitize_envs_idx without the tests of an index list.
sanitize_envs_idx_unchecked(s, envs_idx, unsafe) ==
  CASE envs_idx.kind = "none" ->
         [exc |-> NoExc, sel |-> [j \in 1..s.B |-> j - 1]]
    [] envs_idx.kind # "none" /\ s.n_envs = 0 ->
         [exc |-> ConfigError, sel |-> << >>]
    [] envs_idx.kind = "slice" /\ s.n_envs # 0 ->
         [exc |-> NoExc, sel |-> PySlice(s.B, envs_idx.lo, envs_idx.hi)]
    [] envs_idx.kind = "int" /\ s.n_envs # 0 ->
         [exc |-> NoExc, sel |-> PySlice(s.B, envs_idx.k, envs_idx.k + 1)]
    [] envs_idx.kind = "list" /\ s.n_envs # 0 ->
         [exc |-> NoExc, sel |-> envs_idx.idxs]

\* Scene._sanitize_envs_idx: the selection, or the exception raised.
sanitize_envs_idx(s, envs_idx, unsafe) ==
  CASE envs_idx.kind = "none" ->
         [exc |-> NoExc, sel |-> [j \in 1..s.B |-> j - 1]]
    [] envs_idx.kind # "none" /\ s.n_envs = 0 ->
         [exc |-> ConfigError, sel |-> << >>]
    [] envs_idx.kind = "slice" /\ s.n_envs # 0 ->
         [exc |-> NoExc, sel |-> PySlice(s.B, envs_idx.lo, envs_idx.hi)]
    [] envs_idx.kind = "int" /\ s.n_envs # 0 ->
         [exc |-> NoExc, sel |-> PySlice(s.B, envs_idx.k, envs_idx.k + 1)]
    [] envs_idx.kind = "list" /\ s.n_envs # 0 ->
         IF unsafe THEN [exc |-> NoExc, sel |-> envs_idx.idxs]
         ELSE IF envs_idx.ndim # 1 THEN [exc |-> RangeError, sel |-> << >>]
         ELSE IF \E j \in 1..Len(envs_idx.idxs) :
                   envs_idx.idxs[j] < 0 \/ envs_idx.idxs[j] >= s.n_envs
         THEN [exc |-> RangeError, sel |-> << >>]
         ELSE [exc |-> NoExc, sel |-> envs_idx.idxs]

\* Simulator.reset(state, envs_idx): every active solver restores the
\* selected environments from the snapshot.
Sim_reset(s, state, envs_idx) ==
  IF ~Ok(s) THEN s
  ELSE
    LET r == sanitize_envs_idx(s, envs_idx, FALSE)
    IN IF r.exc # NoExc THEN raise_exception(s, r.exc)
       ELSE Log([s EXCEPT !.sim_state =
                   [f \in DOMAIN @ |->
                      [e \in DOMAIN @[f] |->
                         IF e \in RangeOf(r.sel) THEN state.solvers[f][e]
                         ELSE @[f][e]]],
                        !.n_steps = 0],
                <<"sim.reset", r.sel>>)

\* ------------------------------------------------------------------ scene
_get_state(s) == Sim_get_state(s)

_reset_grad(s) == IF ~Ok(s) THEN s ELSE [s EXCEPT !.backward_ready = TRUE]

\* The restore that does not register the state it is given.
reset_restore_unregistered(s, state, envs_idx) ==
  IF s.is_built
  THEN Sim_reset(s, IF state = NoState THEN s.init_state ELSE state, envs_idx)
  ELSE [s EXCEPT !.init_state = _get_state(s)]

reset_restore(s, state, envs_idx) ==
  IF s.is_built
  THEN IF state = NoState
       THEN Sim_reset(s, s.init_state, envs_idx)
       ELSE Sim_reset([s EXCEPT !.init_state = state], state, envs_idx)
  ELSE [s EXCEPT !.init_state = _get_state(s)]

reset_emitters(s) ==
  IF ~Ok(s) THEN s
  ELSE [s EXCEPT !.emitters = [j \in DOMAIN @ |-> Emitter_reset(@[j])]]

\* _reset without _reset_grad.
_reset_forward_only(s, state, envs_idx) ==
  IF ~Ok(s) THEN s
  ELSE
    LET s1 == reset_restore(s, state, envs_idx)
        s2 == IF Ok(s1)
              THEN [s1 EXCEPT !.t = 0, !.forward_ready = TRUE]
              ELSE s1
    IN reset_emitters(Visualizer_reset(s2))

\* _reset that leaves the context's time marker alone.
_reset_stale_mirror(s, state, envs_idx) ==
  IF ~Ok(s) THEN s
  ELSE
    LET s1 == reset_restore(s, state, envs_idx)
        s2 == IF Ok(s1)
              THEN [s1 EXCEPT !.t = 0, !.forward_ready = TRUE]
              ELSE s1
    IN reset_emitters(_reset_grad(s2))

_reset(s, state, envs_idx) ==
  IF ~Ok(s) THEN s
  ELSE
    LET s1 == reset_restore(s, state, envs_idx)
        s2 == IF Ok(s1)
              THEN [s1 EXCEPT !.t = 0, !.forward_ready = TRUE]
              ELSE s1
    IN reset_emitters(Visualizer_reset(_reset_grad(s2)))

\* reset without its phase check.
Scene_reset_unchecked(s, state, envs_idx) == _reset(s, state, envs_idx)

Scene_reset(s, state, envs_idx) == _reset(assert_built(s), state, envs_idx)

Scene_get_state(s) == assert_built(s)

\* np.ceil(np.sqrt(B)).
CeilSqrt(n) == CHOOSE r \in 0..n : r * r >= n /\ (r = 0 \/ (r - 1) * (r - 1) < n)

MaxOf(S) == CHOOSE x \in S : \A y \in S : y <= x
MinOf(S) == CHOOSE x \in S : \A y \in S : x <= y

\* The offsets with environment i placed at (i % r, i // r): rows and
\* columns exchanged.
EnvsOffset2_transposed(Bv, spacing, r, center) ==
  LET raw == [i \in 0..(Bv - 1) |->
                << 2 * (i % r) * spacing[1], 2 * (i \div r) * spacing[2], 0 >>]
      c == [a \in 1..3 |->
              IF center
              THEN (MaxOf({raw[i][a] : i \in 0..(Bv - 1)})
                    + MinOf({raw[i][a] : i \in 0..(Bv - 1)})) \div 2
              ELSE 0]
  IN [i \in 0..(Bv - 1) |-> [a \in 1..3 |-> raw[i][a] - c[a]]]

\* The offsets of the environments, each coordinate doubled so that the
\* halved centre stays an integer: environment i is at
\* ((i // r) * spacing[0], (i % r) * spacing[1], 0), minus the centre
\* (max + min) / 2 of each axis when centred.
EnvsOffset2(Bv, spacing, r, center) ==
  LET raw == [i \in 0..(Bv - 1) |->
                << 2 * (i \div r) * spacing[1], 2 * (i % r) * spacing[2], 0 >>]
      c == [a \in 1..3 |->
              IF center
              THEN (MaxOf({raw[i][a] : i \in 0..(Bv - 1)})
                    + MinOf({raw[i][a] : i \in 0..(Bv - 1)})) \div 2
              ELSE 0]
  IN [i \in 0..(Bv - 1) |-> [a \in 1..3 |-> raw[i][a] - c[a]]]

\* _parallelize that looks only at the length of env_spacing.
_parallelize_any_container(s, n, spacing, per_row, center_envs_at_origin) ==
  IF ~Ok(s) THEN s
  ELSE
    LET Bv == IF n > 1 THEN n ELSE 1
        r == IF per_row = NoAttr THEN CeilSqrt(Bv) ELSE per_row
        s1 == [s EXCEPT !.n_envs = n, !.env_spacing = spacing,
                        !.n_envs_per_row = r, !.B = Bv]
    IN IF Len(spacing.vals) # 2
       THEN raise_exception(s1, ConfigError)
       ELSE [s1 EXCEPT !.envs_offset =
               EnvsOffset2(Bv, spacing.vals, r, center_envs_at_origin)]

\* Scene._parallelize: the batch size and the row length are stored before
\* env_spacing is validated.  env_spacing is the type of the argument and
\* its elements; n_envs_per_row is NoAttr for None.
_parallelize(s, n, spacing, per_row, center_envs_at_origin) ==
  IF ~Ok(s) THEN s
  ELSE
    LET Bv == IF n > 1 THEN n ELSE 1
        r == IF per_row = NoAttr THEN CeilSqrt(Bv) ELSE per_row
        s1 == [s EXCEPT !.n_envs = n, !.env_spacing = spacing,
                        !.n_envs_per_row = r, !.B = Bv]
    IN IF spacing.type \notin {"list", "tuple"} \/ Len(spacing.vals) # 2
       THEN raise_exception(s1, ConfigError)
       ELSE [s1 EXCEPT !.envs_offset =
               EnvsOffset2(Bv, spacing.vals, r, center_envs_at_origin)]

set_built(s) == IF ~Ok(s) THEN s ELSE [s EXCEPT !.is_built = TRUE]

\* The throwaway step of build without the reset that follows it.
compile_step_unreverted(s, compile_kernels) ==
  IF ~Ok(s) \/ ~compile_kernels THEN s
  ELSE Sim_step(s)

compile_step(s, compile_kernels) ==
  IF ~Ok(s) \/ ~compile_kernels THEN s
  ELSE _reset(Sim_step(s), NoState, [kind |-> "none"])

\* build without its phase check.
Scene_build_unchecked(s, n, spacing, per_row, center_envs_at_origin, compile_kernels) ==
  LET s1 == _parallelize(s, n, spacing, per_row, center_envs_at_origin)
      s2 == set_built(_reset(Sim_build(s1), NoState, [kind |-> "none"]))
  IN Visualizer_build(compile_step(s2, compile_kernels))

\* Scene.build.
Scene_build(s, n, spacing, per_row, center_envs_at_origin, compile_kernels) ==
  LET s1 == _parallelize(assert_unbuilt(s), n, spacing, per_row,
                         center_envs_at_origin)
      s2 == set_built(_reset(Sim_build(s1), NoState, [kind |-> "none"]))
  IN Visualizer_build(compile_step(s2, compile_kernels))

\* Scene.step.
\* step that leaves the clock alone.
Scene_step_uncounted(s, update_visualizer, contacts) ==
  LET s0 == assert_built(s)
      s1 == IF Ok(s0) /\ ~s0.forward_ready
            THEN raise_exception(s0, InvalidStateError) ELSE s0
      s2 == Sim_step(s1)
  IN IF update_visualizer THEN Visualizer_update(s2, contacts) ELSE s2

\* step that does not look at forward_ready.
Scene_step_always(s, update_visualizer, contacts) ==
  LET s2 == Sim_step(assert_built(s))
      s3 == IF Ok(s2) THEN [s2 EXCEPT !.t = @ + 1] ELSE s2
  IN IF update_visualizer THEN Visualizer_update(s3, contacts) ELSE s3

Scene_step(s, update_visualizer, contacts) ==
  LET s0 == assert_built(s)
      s1 == IF Ok(s0) /\ ~s0.forward_ready
            THEN raise_exception(s0, InvalidStateError) ELSE s0
      s2 == Sim_step(s1)
      s3 == IF Ok(s2) THEN [s2 EXCEPT !.t = @ + 1] ELSE s2
  IN IF update_visualizer THEN Visualizer_update(s3, contacts) ELSE s3

\* A reverse step that moves the clock before the solvers run.
_step_grad_clock_first(s) ==
  LET s1 == IF Ok(s) THEN [s EXCEPT !.t = @ - 1] ELSE s
  IN Sim_step_grad(Sim_collect_output_grads(s1))

_step_grad(s) ==
  LET s1 == Sim_step_grad(Sim_collect_output_grads(s))
  IN IF Ok(s1) THEN [s1 EXCEPT !.t = @ - 1] ELSE s1

RECURSIVE backward_loop(_)
backward_loop(s) ==
  IF ~Ok(s) \/ ~(s.t > 0) THEN s ELSE backward_loop(_step_grad(s))

\* A backward pass that leaves backward_ready set.
_backward_repeatable(s) ==
  LET s1 == IF ~s.backward_ready THEN raise_exception(s, InvalidStateError) ELSE s
      s2 == backward_loop(s1)
  IN IF Ok(s2) THEN [s2 EXCEPT !.forward_ready = FALSE] ELSE s2

\* Scene._backward.
_backward(s) ==
  LET s1 == IF ~s.backward_ready THEN raise_exception(s, InvalidStateError) ELSE s
      s2 == backward_loop(s1)
  IN IF Ok(s2) THEN [s2 EXCEPT !.backward_ready = FALSE, !.forward_ready = FALSE]
     ELSE s2

\* Scene._backward in which the simulator's reverse step raises at time
\* index fail_at: the loop is left by the exception and the two
\* assignments after it are not reached.
RECURSIVE backward_loop_until(_, _)
backward_loop_until(s, fail_at) ==
  IF ~Ok(s) \/ ~(s.t > 0) THEN s
  ELSE IF s.t = fail_at
  THEN raise_exception(Sim_collect_output_grads(s), "RuntimeError")
  ELSE backward_loop_until(_step_grad(s), fail_at)

_backward_interrupted(s, fail_at) ==
  LET s1 == IF ~s.backward_ready THEN raise_exception(s, InvalidStateError) ELSE s
      s2 == backward_loop_until(s1, fail_at)
  IN IF Ok(s2) THEN [s2 EXCEPT !.backward_ready = FALSE, !.forward_ready = FALSE]
     ELSE s2

\* ------------------------------------------------------- configuration
\* The vis_mode values add_entity accepts for a material (lines 321-386);
\* the empty set is the final else branch.
AllowedVisModes(material) ==
  CASE material \in {"Rigid", "Avatar", "Tool"} -> {"visual", "collision", "sdf"}
    [] material \in {"PBD.Liquid", "PBD.Particle", "MPM.Liquid", "MPM.Sand",
                     "MPM.Snow", "SPH.Liquid"} -> {"particle", "recon"}
    [] material = "SF.Smoke" -> {"particle"}
    [] material \in {"PBD.Cloth", "PBD.Elastic", "MPM.Elastic"} ->
         {"visual", "particle", "recon"}
    [] material = "FEM.Elastic" -> {"visual"}
    [] material = "Hybrid" -> {"particle", "visual"}
    [] OTHER -> {}

DefaultVisMode(material) ==
  CASE material \in {"Rigid", "Avatar", "Tool"} -> "visual"
    [] material \in {"PBD.Liquid", "PBD.Particle", "MPM.Liquid", "MPM.Sand",
                     "MPM.Snow", "SPH.Liquid", "SF.Smoke", "Hybrid"} -> "particle"
    [] OTHER -> "visual"

\* The objects the caller of add_entity holds after the call: the surface
\* passed in (NoSurface if none was passed; double_sided is "None", "True"
\* or "False") and _sdf_max_res of the material passed in.  add_entity
\* writes to them on its way to the test of the mode (lines 291-386), and
\* nothing is undone when a test fails.
NoSurface == [kind |-> "None"]

add_entity_objects(objs, morph, material, vis_mode) ==
  LET given == objs.surface # NoSurface
      o1 == IF material = "Rigid" /\ morph = "Primitive"
            THEN [objs EXCEPT !.sdf_max_res = 32] ELSE objs
      o2 == IF given /\ morph = "Terrain"
            THEN [o1 EXCEPT !.surface.smooth = FALSE] ELSE o1
      mat == IF material = None THEN "Rigid" ELSE material
      o3 == IF given /\ o2.surface.double_sided = "None"
            THEN [o2 EXCEPT !.surface.double_sided =
                    IF mat = "PBD.Cloth" THEN "True" ELSE "False"]
            ELSE o2
      o4 == IF given /\ vis_mode # None
            THEN [o3 EXCEPT !.surface.vis_mode = vis_mode] ELSE o3
      o5 == IF given /\ o4.surface.vis_mode = None /\ AllowedVisModes(mat) # {}
            THEN [o4 EXCEPT !.surface.vis_mode = DefaultVisMode(mat)] ELSE o4
  IN IF morph \in {"URDF", "MJCF", "Terrain"}
        /\ mat \notin {"Rigid", "Avatar", "Hybrid"}
     THEN o2
     ELSE o5

\* Scene.add_entity; surface_vis_mode is surface.vis_mode of the surface
\* passed in (None for the default surface).
add_entity_body(s, morph, material, surface_vis_mode, visualize_contact, vis_mode) ==
  IF ~Ok(s) THEN s
  ELSE
    LET mat == IF material = None THEN "Rigid" ELSE material
        given == IF vis_mode # None THEN vis_mode ELSE surface_vis_mode
        mode == IF given = None THEN DefaultVisMode(mat) ELSE given
    IN IF morph \in {"URDF", "MJCF", "Terrain"}
          /\ mat \notin {"Rigid", "Avatar", "Hybrid"}
       THEN raise_exception(s, ConfigError)
       ELSE IF mode \notin AllowedVisModes(mat)
       THEN raise_exception(s, ConfigError)
       ELSE Sim_add_entity(s, morph, mat, mode, visualize_contact)

Scene_add_entity(s, morph, material, surface_vis_mode, visualize_contact, vis_mode) ==
  add_entity_body(assert_unbuilt(s), morph, material, surface_vis_mode,
                  visualize_contact, vis_mode)

\* The links of entity i, as positions in the link list.
EntityLinks(s, i) == {k \in 1..Len(s.links) : s.links[k].entity = i}

\* RigidEntity.get_link(name): the position of the link, 0 if there is none.
get_link(s, i, name) ==
  IF \E k \in EntityLinks(s, i) : s.links[k].name = name
  THEN CHOOSE k \in EntityLinks(s, i) : s.links[k].name = name
  ELSE 0

\* The first root link of entity i, 0 if every link has a parent.
FirstRoot(s, i) ==
  LET roots == {k \in EntityLinks(s, i) : s.links[k].parent_idx = -1}
  IN IF roots = {} THEN 0 ELSE MinOf(roots)

link_entities_body(s, parent_entity, child_entity, parent_link_name, child_link_name) ==
  IF ~Ok(s) THEN s
  ELSE IF ~IsRigidEntity(s.entities[parent_entity]) THEN raise_exception(s, ConfigError)
  ELSE IF ~IsRigidEntity(s.entities[child_entity]) THEN raise_exception(s, ConfigError)
  ELSE
    LET child_link == IF child_link_name = "" THEN FirstRoot(s, child_entity)
                      ELSE get_link(s, child_entity, child_link_name)
        parent_link == get_link(s, parent_entity, parent_link_name)
    IN IF child_link_name # "" /\ child_link = 0 THEN raise_exception(s, ConfigError)
       ELSE IF parent_link = 0 THEN raise_exception(s, ConfigError)
       ELSE IF child_link = 0 THEN raise_exception(s, "UnboundLocalError")
       ELSE
         LET s1 == [s EXCEPT !.links[child_link].parent_idx = s.links[parent_link].idx]
             s2 == [s1 EXCEPT !.links[parent_link].child_idxs =
                                 Append(@, s.links[child_link].idx)]
         IN IF s.links[child_link].parent_idx # -1
            THEN Log(s2, <<"warning">>) ELSE s2

Scene_link_entities(s, parent_entity, child_entity, parent_link_name, child_link_name) ==
  link_entities_body(assert_unbuilt(s), parent_entity, child_entity,
                     parent_link_name, child_link_name)

\* Scene.add_light: without a ray tracer the call warns and returns.
Scene_add_light(s, morph) ==
  LET s0 == assert_unbuilt(s)
  IN IF ~Ok(s0) THEN s0
     ELSE IF ~s0.has_raytracer THEN Log(s0, <<"warning">>)
     ELSE IF morph \notin {"Primitive", "Mesh"} THEN raise_exception(s0, ConfigError)
     ELSE [s0 EXCEPT !.mesh_lights = @ + 1]

Scene_add_camera(s) ==
  LET s0 == assert_unbuilt(s)
  IN IF ~Ok(s0) THEN s0 ELSE Visualizer_add_camera(s0)

\* add_emitter with the emitter appended before its entity is added.
Scene_add_emitter_eager(s, material, surface_vis_mode) ==
  LET s0 == assert_unbuilt(s)
  IN IF ~Ok(s0) THEN s0
     ELSE IF s0.requires_grad THEN raise_exception(s0, ConfigError)
     ELSE IF material \notin {"MPM.Liquid", "MPM.Sand", "MPM.Snow", "MPM.Elastic",
                              "SPH.Liquid", "PBD.Particle", "PBD.Liquid"}
     THEN raise_exception(s0, ConfigError)
     ELSE
       Scene_add_entity(
         [s0 EXCEPT !.emitters =
            Append(@, [entity |-> Len(s0.entities) + 1, next_particle |-> 0])],
         "Nowhere", material, surface_vis_mode, FALSE, None)

\* Scene.add_emitter; surface_vis_mode is surface.vis_mode of the surface
\* passed in (None for the default surface).
Scene_add_emitter(s, material, surface_vis_mode) ==
  LET s0 == assert_unbuilt(s)
  IN IF ~Ok(s0) THEN s0
     ELSE IF s0.requires_grad THEN raise_exception(s0, ConfigError)
     ELSE IF material \notin {"MPM.Liquid", "MPM.Sand", "MPM.Snow", "MPM.Elastic",
                              "SPH.Liquid", "PBD.Particle", "PBD.Liquid"}
     THEN raise_exception(s0, ConfigError)
     ELSE
       LET s1 == Scene_add_entity(s0, "Nowhere", material, surface_vis_mode,
                                  FALSE, None)
       IN IF ~Ok(s1) THEN s1
          ELSE [s1 EXCEPT !.emitters =
                  Append(@, [entity |-> Len(s1.entities), next_particle |-> 0])]

\* add_force_field without its phase check.
Scene_add_force_field_unchecked(s, force_field) ==
  Sim_add_force_field(s, force_field)

Scene_add_force_field(s, force_field) ==
  LET s0 == assert_unbuilt(s)
  IN IF ~Ok(s0) THEN s0 ELSE Sim_add_force_field(s0, force_field)

\* Emitter.emit on a built scene: the replay cursor advances.
Emitter_emit(s, j) ==
  LET s0 == assert_built(s)
  IN IF ~Ok(s0) THEN s0
     ELSE [s0 EXCEPT !.emitters[j].next_particle = @ + 1]

\* ------------------------------------------------------- debug drawing
\* "debug_<kind>_<UID>": a name no live external node has.
NewDebugName(s) ==
  LET n == CHOOSE n \in 1..(Cardinality(DOMAIN s.external_nodes) + 1) :
             /\ ("debug_" \o ToString(n)) \notin DOMAIN s.external_nodes
             /\ \A m \in 1..(n - 1) :
                  ("debug_" \o ToString(m)) \in DOMAIN s.external_nodes
  IN "debug_" \o ToString(n)

\* RasterizerContext.draw_debug_*: an arrow of length 0 draws nothing.
Context_draw_debug(s, kind, length) ==
  IF ~Ok(s) THEN s
  ELSE IF kind = "arrow" /\ ~(length > 0) THEN s
  ELSE add_external_node(s, NewDebugName(s))

\* "with self._visualizer.viewer_lock:": the lock is acquired when the
\* block is entered and released when it is left, by a return or by an
\* exception of the block.
viewer_lock_enter(s) == Enter(s, "viewer_lock.acquire")

viewer_lock_exit(s) == Log(s, <<"viewer_lock.release">>)

\* A block that releases the lock only when it is left by a return.
viewer_lock_exit_on_return(s) == Enter(s, "viewer_lock.release")

\* Scene.draw_debug_line, _arrow, _frame, _frames, _mesh, _sphere,
\* _spheres, _box, _points and _path.
Scene_draw_debug(s, kind, length) ==
  LET s0 == assert_built(s)
  IN IF ~Ok(s0) THEN s0
     ELSE viewer_lock_exit(Context_draw_debug(viewer_lock_enter(s0), kind, length))

\* clear_debug_object without the release on the exception's path.
Scene_clear_debug_object_no_finally(s, name) ==
  LET s0 == assert_built(s)
  IN IF ~Ok(s0) THEN s0
     ELSE viewer_lock_exit_on_return(
            IF name = None THEN raise_exception(viewer_lock_enter(s0), "AttributeError")
            ELSE clear_external_node(viewer_lock_enter(s0), name))

\* Scene.clear_debug_object(object); name is object.name, None for an
\* object without a name, for which reading object.name raises.
Scene_clear_debug_object(s, name) ==
  LET s0 == assert_built(s)
  IN IF ~Ok(s0) THEN s0
     ELSE viewer_lock_exit(
            IF name = None THEN raise_exception(viewer_lock_enter(s0), "AttributeError")
            ELSE clear_external_node(viewer_lock_enter(s0), name))

Scene_clear_debug_objects(s) ==
  LET s0 == assert_built(s)
  IN IF ~Ok(s0) THEN s0
     ELSE viewer_lock_exit(clear_external_nodes(viewer_lock_enter(s0)))

\* --------------------------------------------------------- checkpoints
\* Solver.dump_ckpt_to_numpy / load_ckpt_from_numpy: the solver's buffer
\* under the key "<Solver>.<attribute>".
CkptKey(f) == <<f, "state">>

Solver_dump(s, f) == (CkptKey(f) :> s.sim_state[f])

\* load_ckpt_from_numpy that looks its key up without testing for it.
Solver_load_strict(s, f, arrays) ==
  IF ~Ok(s) THEN s
  ELSE IF CkptKey(f) \in DOMAIN arrays
  THEN [s EXCEPT !.sim_state[f] = arrays[CkptKey(f)]]
  ELSE raise_exception(s, "KeyError")

Solver_load(s, f, arrays) ==
  IF CkptKey(f) \in DOMAIN arrays
  THEN [s EXCEPT !.sim_state[f] = arrays[CkptKey(f)]]
  ELSE s

RECURSIVE dump_solvers(_, _)
dump_solvers(s, todo) ==
  IF todo = {} THEN EmptyMap
  ELSE LET f == CHOOSE f \in todo : TRUE
       IN Solver_dump(s, f) @@ dump_solvers(s, todo \ {f})

\* Scene.dump_ckpt_to_numpy: the scene itself owns no field.
dump_ckpt_to_numpy(s) == dump_solvers(s, active_solvers(s))

RECURSIVE load_solvers(_, _, _)
load_solvers(s, todo, arrays) ==
  IF todo = {} THEN s
  ELSE LET f == CHOOSE f \in todo : TRUE
       IN load_solvers(Solver_load(s, f, arrays), todo \ {f}, arrays)

\* save_checkpoint that returns normally, with nothing written, when the
\* file cannot be opened.
Scene_save_checkpoint_silent(s, can_open, now) ==
  LET state == [kind |-> "ckpt", timestamp |-> now, step_index |-> s.t,
                arrays |-> dump_ckpt_to_numpy(s)]
  IN IF ~can_open THEN s
     ELSE [s EXCEPT !.ckpt_file = state]

\* Scene.save_checkpoint; can_open is whether open(path, "wb") succeeds.
Scene_save_checkpoint(s, can_open, now) ==
  LET state == [kind |-> "ckpt", timestamp |-> now, step_index |-> s.t,
                arrays |-> dump_ckpt_to_numpy(s)]
  IN IF ~can_open THEN raise_exception(s, "IOError")
     ELSE [s EXCEPT !.ckpt_file = state]

\* load_checkpoint that restores the buffers only.
Scene_load_checkpoint_buffers_only(s, can_open) ==
  IF ~can_open \/ s.ckpt_file = NoFile THEN raise_exception(s, "IOError")
  ELSE load_solvers(s, active_solvers(s), s.ckpt_file.arrays)

\* Scene.load_checkpoint; opening a file that is not there fails.  A file
\* without a step index (NoAttr) leaves t as it is: state.get("step_index",
\* self._t).
Scene_load_checkpoint(s, can_open) ==
  IF ~can_open \/ s.ckpt_file = NoFile THEN raise_exception(s, "IOError")
  ELSE
    LET s1 == load_solvers(s, active_solvers(s), s.ckpt_file.arrays)
    IN IF ~Ok(s1) THEN s1
       ELSE [s1 EXCEPT !.t = IF s.ckpt_file.step_index = NoAttr THEN s.t
                              ELSE s.ckpt_file.step_index]

\* ---------------------------------------------------------------- inputs
\* The constructor options the scenes are created with.
SceneOptions ==
  { [requires_grad |-> FALSE, has_raytracer |-> TRUE,
     segmentation_level |-> "entity", show_world_frame |-> TRUE,
     show_link_frame |-> FALSE, show_cameras |-> FALSE],
    [requires_grad |-> TRUE, has_raytracer |-> FALSE,
     segmentation_level |-> "link", show_world_frame |-> FALSE,
     show_link_frame |-> FALSE, show_cameras |-> FALSE] }

\* Options with every segmentation level: the two that are supported,
\* "geom", and one that is not a level.
SegLevelOptions ==
  { [requires_grad |-> FALSE, has_raytracer |-> FALSE,
     segmentation_level |-> level, show_world_frame |-> FALSE,
     show_link_frame |-> FALSE, show_cameras |-> FALSE] :
      level \in {"entity", "link", "geom", "part"} }

\* Options of scenes that are drawn with the frames of their links and the
\* frustums of their cameras, or without them.
FrameOptions ==
  { [requires_grad |-> FALSE, has_raytracer |-> FALSE,
     segmentation_level |-> "entity", show_world_frame |-> shown,
     show_link_frame |-> shown, show_cameras |-> shown] :
      shown \in BOOLEAN }

Morphs == {"Primitive"}
Materials == {"Rigid", "MPM.Liquid"}
VisModes == {None, "recon"}
EmitterMaterials == {"MPM.Liquid", "Rigid"}
EnvSpacings ==
  { [type |-> "tuple", vals |-> <<0, 0>>], [type |-> "tuple", vals |-> <<1>>] }

\* The layouts asked of build: env_spacing as tuples and lists of one, two
\* and three numbers, as an array of two numbers and as a single number;
\* n_envs_per_row None (NoAttr), 1 or 2; up to 2 * MaxEnvs environments.
LayoutSpacings ==
  { [type |-> "tuple", vals |-> <<1, 2>>], [type |-> "list", vals |-> <<2, 1>>],
    [type |-> "tuple", vals |-> <<1>>], [type |-> "list", vals |-> <<1, 1, 1>>],
    [type |-> "ndarray", vals |-> <<1, 1>>], [type |-> "float", vals |-> <<1>>] }

LayoutRows == {NoAttr, 1, 2}

LayoutEnvs == 0..(2 * MaxEnvs)
DrawKinds == {"line", "arrow"}

\* Segmentation keys: the background's, two entities' and a link's.
SegKeys == { <<-1>>, <<0>>, <<1>>, <<0, 0>> }

\* The names of the objects a caller hands to the context: no name
\* attribute, an empty name, and two names of the caller's choice.
ExternalNames == {None, "", "marker", "probe"}

EnvsIdxInputs ==
  { [kind |-> "none"], [kind |-> "int", k |-> 0],
    [kind |-> "list", ndim |-> 1, idxs |-> <<0>>],
    [kind |-> "list", ndim |-> 1, idxs |-> <<MaxEnvs + 1>>] }

\* The selectors handed to the sanitiser: those of reset, slices, integers
\* in and out of [0, B), and index lists with a negative index, with two
\* indices and with two dimensions.
SelectorInputs ==
  EnvsIdxInputs \cup
  { [kind |-> "slice", lo |-> 0, hi |-> 1],
    [kind |-> "slice", lo |-> 1, hi |-> MaxEnvs + 1],
    [kind |-> "int", k |-> 1],
    [kind |-> "int", k |-> MaxEnvs],
    [kind |-> "int", k |-> -1],
    [kind |-> "list", ndim |-> 1, idxs |-> <<-1>>],
    [kind |-> "list", ndim |-> 1, idxs |-> <<0, 1>>],
    [kind |-> "list", ndim |-> 2, idxs |-> <<0>>] }

\* The snapshots a caller passes to reset: None, or a state of the scene's
\* shape in which every buffer holds MaxVal - 1.
StateInputs ==
  { NoState,
    [kind |-> "SimState",
     solvers |-> [f \in DOMAIN sim_state |->
                    [e \in DOMAIN sim_state[f] |-> MaxVal - 1]]] }

\* The contacts the collider may report: none, or one between two links.
ContactInputs ==
  { << >> } \cup
  { << [link_a |-> a, link_b |-> b, force |-> fl, normal |-> 1] >> :
      <<a, b, fl>> \in { x \in (0..(Len(links) - 1)) \X (0..(Len(links) - 1)) \X {0, 1} :
                          x[1] < x[2] } }

\* The number of auxiliary configuration objects (lights, cameras, emitters,
\* force fields, kinematic links between entities) added so far.
RECURSIVE SumChildren(_, _)
SumChildren(ls, k) ==
  IF k > Len(ls) THEN 0 ELSE Len(ls[k].child_idxs) + SumChildren(ls, k + 1)

AuxCount ==
  mesh_lights + Len(cameras) + Len(emitters) + Len(force_fields)
    + SumChildren(links, 1)

\* Stepping stays within the bounds of the model.
StepBounded ==
  /\ t < MaxT
  /\ n_steps < MaxT
  /\ \A f \in DOMAIN sim_state : \A e \in DOMAIN sim_state[f] : sim_state[f][e] < MaxVal

\* --------------------------------------------------------------- actions
InitWith(Options) ==
  /\ \E o \in Options :
       /\ requires_grad = o.requires_grad
       /\ has_raytracer = o.has_raytracer
       /\ segmentation_level = o.segmentation_level
       /\ show_world_frame = o.show_world_frame
       /\ show_link_frame = o.show_link_frame
       /\ show_cameras = o.show_cameras
  /\ is_built = FALSE /\ forward_ready = FALSE /\ backward_ready = FALSE
  /\ t = 0
  /\ n_envs = NoAttr /\ B = NoAttr
  /\ env_spacing = [type |-> "None", vals |-> << >>]
  /\ n_envs_per_row = NoAttr /\ envs_offset = EmptyMap
  /\ init_state = NoState /\ emitters = << >>
  /\ entities = << >> /\ links = << >> /\ force_fields = << >>
  /\ sim_state = EmptyMap
  /\ cameras = << >> /\ mesh_lights = 0
  /\ ctx_t = NoAttr /\ scene_nodes = {} /\ world_frame_node = NoNode
  /\ world_frame_shown = FALSE
  /\ link_frame_nodes = EmptyMap /\ link_frame_shown = FALSE
  /\ frustum_nodes = EmptyMap /\ camera_frustum_shown = FALSE
  /\ rigid_nodes = EmptyMap /\ static_nodes = EmptyMap
  /\ dynamic_nodes = << >> /\ external_nodes = EmptyMap
  /\ seg_key_map = (<<-1>> :> 0) /\ seg_idxc_map = (0 :> <<-1>>)
  /\ seg_node_map = EmptyMap /\ seg_colors = NoAttr /\ buffer = EmptyMap
  /\ ckpt_file = NoFile
  /\ op = "init" /\ args = << >> /\ exc = NoExc /\ calls = << >> /\ n_steps = 0

Init == InitWith(SceneOptions)

\* add_entity called with one of the given materials, vis_mode values and
\* visualize_contact flags.
add_entity_in(Ms, Mats, Modes, VCs) ==
  /\ is_built \/ Len(entities) < MaxEntities
  /\ \E morph \in Ms, material \in Mats, vc \in VCs, vis_mode \in Modes :
       Commit(Scene_add_entity(Begin("add_entity"), morph, material, None, vc, vis_mode))

add_entity == add_entity_in(Morphs, Materials, VisModes, BOOLEAN)

\* link_entities called with link names among the given ones.
link_entities_in(Names) ==
  /\ Len(entities) > 0
  /\ is_built \/ AuxCount < MaxAux
  /\ \E p \in 1..Len(entities), c \in 1..Len(entities), pn \in Names, cn \in Names :
       Commit(Scene_link_entities(Begin("link_entities"), p, c, pn, cn))

link_entities == link_entities_in({"base", ""})

add_light ==
  /\ is_built \/ AuxCount < MaxAux
  /\ \E morph \in {"Primitive", "URDF"} :
       Commit(Scene_add_light(Begin("add_light"), morph))

add_camera ==
  /\ is_built \/ AuxCount < MaxAux
  /\ Commit(Scene_add_camera(Begin("add_camera")))

add_emitter ==
  /\ is_built \/ (Len(entities) < MaxEntities /\ AuxCount < MaxAux)
  /\ \E material \in EmitterMaterials :
       Commit(Scene_add_emitter(Begin("add_emitter"), material, None))

add_force_field ==
  /\ is_built \/ AuxCount < MaxAux
  /\ Commit(Scene_add_force_field(Begin("add_force_field"), "field"))

\* build called with one of the given numbers of environments.
build_in(Ns) ==
  \E n \in Ns, spacing \in EnvSpacings, center \in BOOLEAN, ck \in BOOLEAN :
    Commit(Scene_build(Begin("build"), n, spacing, NoAttr, center, ck))

\* The first build call of a scene, with one of the layouts; the record of
\* the call holds its arguments.
build_layout ==
  /\ ~is_built /\ n_envs = NoAttr
  /\ \E n \in LayoutEnvs, spacing \in LayoutSpacings, per_row \in LayoutRows,
        center \in BOOLEAN, ck \in BOOLEAN :
       Commit(Scene_build(BeginWith("build", <<n, spacing, per_row, center, ck>>),
                          n, spacing, per_row, center, ck))

build == build_in(0..MaxEnvs)

reset ==
  \E state \in StateInputs, envs_idx \in EnvsIdxInputs :
    Commit(Scene_reset(BeginWith("reset", <<state, envs_idx>>), state, envs_idx))

get_state == Commit(Scene_get_state(Begin("get_state")))

step ==
  /\ StepBounded \/ ~(is_built /\ forward_ready)
  /\ \E uv \in BOOLEAN, contacts \in ContactInputs :
       Commit(Scene_step(Begin("step"), uv, contacts))

backward == Commit(_backward(Begin("backward")))

draw_debug ==
  /\ Cardinality(DOMAIN external_nodes) < MaxDebug
  /\ \E kind \in DrawKinds, length \in {0, 1} :
       Commit(Scene_draw_debug(Begin("draw_debug"), kind, length))

clear_debug_object ==
  \E name \in DOMAIN external_nodes \cup {"ghost"} :
    Commit(Scene_clear_debug_object(Begin("clear_debug_object"), name))

clear_debug_objects == Commit(Scene_clear_debug_objects(Begin("clear_debug_objects")))

\* reset() of all environments, and of an environment the scene has not.
reset_envs ==
  \E envs_idx \in {[kind |-> "none"], [kind |-> "list", ndim |-> 1, idxs |-> <<MaxEnvs + 1>>]} :
    Commit(Scene_reset(BeginWith("reset", <<envs_idx>>), NoState, envs_idx))

\* backward() whose reverse pass fails in a solver at one of its steps.
backward_interrupted ==
  /\ is_built /\ t > 0
  /\ \E fail_at \in 1..t :
       Commit(_backward_interrupted(BeginWith("backward", <<fail_at>>), fail_at))

\* clear_debug_object called with something that is no node.
clear_debug_unnamed ==
  /\ is_built
  /\ Commit(Scene_clear_debug_object(Begin("clear_debug_object"), None))

emit ==
  \E j \in 1..Len(emitters) :
    /\ emitters[j].next_particle < MaxCursor
    /\ Commit(Emitter_emit(Begin("emit"), j))

\* Checkpoints are taken of, and loaded into, built scenes.
save_checkpoint ==
  /\ is_built
  /\ \E can_open \in BOOLEAN, now \in {1} :
       Commit(Scene_save_checkpoint(BeginWith("save_checkpoint", <<can_open>>),
                                    can_open, now))

load_checkpoint ==
  /\ is_built
  /\ \E can_open \in BOOLEAN :
       Commit(Scene_load_checkpoint(BeginWith("load_checkpoint", <<can_open>>),
                                    can_open))

\* The checkpoint file is replaced by one of another scene or version: a
\* buffer of the scene's shape under each key of some set of the scene's
\* own keys and of a key that names no buffer, with or without a step index.
foreign_checkpoint ==
  /\ is_built
  /\ \E keys \in SUBSET ({CkptKey(f) : f \in DOMAIN sim_state} \cup {CkptKey("Legacy")}),
        step_index \in {NoAttr, MaxT - 1} :
       Commit([Begin("foreign_checkpoint") EXCEPT
                 !.ckpt_file =
                   [kind |-> "ckpt", timestamp |-> 0, step_index |-> step_index,
                    arrays |-> [k \in keys |->
                                  [e \in 0..(B - 1) |-> MaxVal - 1]]]])

\* The viewer and the cameras call the visualizer's update before they
\* render.
update ==
  \E contacts \in ContactInputs :
    Commit(Visualizer_update(Begin("update"), contacts))

\* The context's registry of external nodes, used by callers that draw
\* their own objects.  The renderer scene exists from build on.
add_external ==
  /\ is_built
  /\ \E name \in ExternalNames :
       /\ \/ name \in DOMAIN external_nodes \cup {None, ""}
          \/ Cardinality(DOMAIN external_nodes) < MaxDebug
       /\ Commit(add_external_node(BeginWith("add_external_node", <<name>>), name))

clear_external ==
  /\ is_built
  /\ \E name \in ExternalNames \ {None, ""} :
       Commit(clear_external_node(BeginWith("clear_external_node", <<name>>), name))

\* A lookup of a segmentation key, as the context and the renderer make.
seg_lookup ==
  \E seg_key \in SegKeys :
    Commit(seg_key_to_idxc(BeginWith("seg_key_to_idxc", <<seg_key>>), seg_key))

\* A call of the sanitiser by an entity or a solver of a built scene; the
\* record of the call holds the selector, the unsafe flag and the selection
\* returned.
sanitize ==
  /\ is_built
  /\ \E envs_idx \in SelectorInputs, unsafe \in BOOLEAN :
       LET r == sanitize_envs_idx(St, envs_idx, unsafe)
       IN Commit([BeginWith("_sanitize_envs_idx", <<envs_idx, unsafe, r.sel>>)
                    EXCEPT !.exc = r.exc])

\* add_rigid_node for a geom of a rigid entity, as on_rigid calls it for
\* each geom, on a context whose renderer scene exists.
add_rigid ==
  /\ is_built
  /\ Cardinality(scene_nodes) <= MaxEntities
  /\ \E i \in 1..Len(entities) :
       /\ IsRigidEntity(entities[i])
       /\ Commit(add_rigid_node(Begin("add_rigid_node"), GeomUid(St, i),
                                 EntityIdx(i), LinkIdxOf(St, i)))

\* A debug sphere drawn with persistent=False: a dynamic node of no entity,
\* added between two passes.
draw_transient ==
  /\ is_built /\ Len(dynamic_nodes) < MaxDebug
  /\ Commit(add_dynamic_node(Begin("draw_debug_sphere"), -1, TRUE))

\* The nodes the registries of the context refer to.
RegisteredNodes ==
  (Values(rigid_nodes) \cup Values(static_nodes) \cup Values(external_nodes)
     \cup Values(link_frame_nodes) \cup Values(frustum_nodes)
     \cup RangeOf(dynamic_nodes) \cup {world_frame_node}) \ {NoNode}

\* The viewer's switches for the world frame, the link frames and the
\* camera frustums.
show_frame ==
  /\ is_built
  /\ \/ Commit(on_world_frame(Begin("on_world_frame")))
     \/ Commit(on_link_frame(Begin("on_link_frame")))
     \/ Commit(on_camera_frustum(Begin("on_camera_frustum")))

hide_frame ==
  /\ is_built
  /\ \/ Commit(off_world_frame(Begin("off_world_frame")))
     \/ Commit(off_link_frame(Begin("off_link_frame")))
     \/ Commit(off_camera_frustum(Begin("off_camera_frustum")))

\* on_rigid called on a context that is built, as long as every node of the
\* renderer scene is registered.
on_rigid_again ==
  /\ is_built /\ scene_nodes \subseteq RegisteredNodes
  /\ Commit(on_rigid(Begin("on_rigid")))

destroy ==
  /\ is_built
  /\ Commit(RasterizerContext_destroy(Begin("destroy")))

\* Every operation, in any order.
Next ==
  \/ add_entity \/ link_entities \/ add_light \/ add_camera \/ add_emitter
  \/ add_force_field \/ build \/ reset \/ get_state \/ step \/ backward
  \/ draw_debug \/ clear_debug_object \/ clear_debug_objects \/ emit
  \/ save_checkpoint \/ load_checkpoint \/ update
  \/ add_external \/ clear_external \/ seg_lookup \/ sanitize \/ add_rigid
  \/ foreign_checkpoint \/ draw_transient
  \/ show_frame \/ hide_frame \/ on_rigid_again \/ destroy
  \/ clear_debug_unnamed \/ backward_interrupted \/ reset_envs

Spec == Init /\ [][Next]_vars

\* Configuration: every configuration method and build in any order, and
\* the run-time methods called on the scene while it is not built.
add_plain_entity == add_entity_in(Morphs, Materials, {None}, {FALSE})
link_by_name == link_entities_in({"base"})
build_run == build_in({0, MaxEnvs})
early_step == ~is_built /\ step
early_reset == ~is_built /\ reset
early_get_state == ~is_built /\ get_state
early_draw_debug == ~is_built /\ draw_debug
early_clear_debug_object == ~is_built /\ clear_debug_object
early_clear_debug_objects == ~is_built /\ clear_debug_objects

NextConfig ==
  \/ add_plain_entity \/ link_by_name \/ add_light \/ add_camera \/ add_emitter
  \/ add_force_field \/ build_run
  \/ early_step \/ early_reset \/ early_get_state
  \/ early_draw_debug \/ early_clear_debug_object \/ early_clear_debug_objects

SpecConfig == Init /\ [][NextConfig]_vars

\* Running: scenes of rigid entities and emitters, built with or without
\* batching, then stepped, reset and differentiated in any order.
add_rigid_entity == add_entity_in(Morphs, {"Rigid"}, {None}, {FALSE})

NextRun ==
  \/ add_rigid_entity \/ add_emitter \/ build_run \/ reset \/ get_state \/ step
  \/ backward \/ emit

SpecRun == Init /\ [][NextRun]_vars

\* Forward runs: build, step and reset only, of a scene with a rigid entity
\* or a tool entity, the tool with or without a mesh.
add_fwd_entity ==
  add_entity_in({"Primitive", "Nowhere"}, {"Rigid", "Tool"}, {None}, {FALSE})

NextFwd == add_fwd_entity \/ build_run \/ reset \/ step

SpecFwd == Init /\ [][NextFwd]_vars

\* Checkpointing: forward runs with checkpoints saved and loaded.
NextCkpt ==
  \/ add_rigid_entity \/ build_run \/ reset \/ step
  \/ save_checkpoint \/ load_checkpoint

SpecCkpt == Init /\ [][NextCkpt]_vars

\* The render mirror: forward runs of a scene whose entities are drawn with
\* rigid or dynamic nodes, with the mirror brought up to date by step or by
\* a direct call of update.
add_drawn_entity ==
  add_entity_in(Morphs, {"Rigid", "MPM.Liquid"}, {"recon"}, BOOLEAN)

NextMirror == add_drawn_entity \/ build_run \/ reset \/ step \/ update

SpecMirror == Init /\ [][NextMirror]_vars

\* External nodes: a built scene whose context is handed named objects to
\* draw and to remove, next to the scene's own debug objects.
NextExternal ==
  \/ add_rigid_entity \/ build_run \/ add_external \/ clear_external
  \/ draw_debug \/ clear_debug_object \/ clear_debug_objects

SpecExternal == Init /\ [][NextExternal]_vars

\* Segmentation: keys looked up directly, and by build and update for the
\* nodes they add.
NextSeg == add_drawn_entity \/ build_run \/ step \/ seg_lookup

SpecSeg == Init /\ [][NextSeg]_vars

\* Environment selectors: scenes built with every number of environments,
\* reset and asked to sanitise selectors.
NextEnvs == add_rigid_entity \/ build \/ reset \/ sanitize

SpecEnvs == Init /\ [][NextEnvs]_vars

\* Layouts: scenes built with every layout, then stepped.
NextLayout == add_rigid_entity \/ build_layout \/ step

SpecLayout == Init /\ [][NextLayout]_vars

\* Segmentation levels: scenes of every segmentation level, built, and
\* their contexts asked for further rigid nodes.
NextSegLevel == add_rigid_entity \/ build_run \/ add_rigid \/ get_state

SpecSegLevel == InitWith(SegLevelOptions) /\ [][NextSegLevel]_vars

\* Checkpoint keys: checkpoints written by another scene or version, loaded
\* into rigid and particle scenes between steps without a visualizer update.
step_quiet ==
  /\ StepBounded \/ ~(is_built /\ forward_ready)
  /\ Commit(Scene_step(Begin("step"), FALSE, << >>))

NextCkptKeys ==
  \/ add_plain_entity \/ build_run \/ step_quiet
  \/ foreign_checkpoint \/ load_checkpoint

SpecCkptKeys == Init /\ [][NextCkptKeys]_vars

\* Checkpoints and the mirror: steps that update the visualizer, with
\* checkpoints saved and loaded between them.  A load can take t back, so
\* the steps are bounded by the simulator steps taken, one more than MaxT.
step_shown ==
  /\ t < MaxT /\ n_steps <= MaxT
  /\ \A f \in DOMAIN sim_state : \A e \in DOMAIN sim_state[f] : sim_state[f][e] < MaxVal
  /\ \E contacts \in ContactInputs :
       Commit(Scene_step(BeginWith("step", <<TRUE>>), TRUE, contacts))

NextCkptMirror ==
  \/ add_rigid_entity \/ build_run \/ step_shown
  \/ save_checkpoint \/ load_checkpoint

SpecCkptMirror == Init /\ [][NextCkptMirror]_vars

\* Resync passes: scenes of up to two entities, rigid with contact arrows,
\* or liquid drawn with a node per frame or with particles,
\* stepped and updated with transient debug nodes drawn between the passes.
ShownEntities ==
  { <<"Rigid", None, TRUE>>,
    <<"MPM.Liquid", "recon", FALSE>>, <<"MPM.Liquid", "particle", FALSE>> }

add_shown_entity ==
  /\ ~is_built /\ Len(entities) <= MaxEntities
  /\ \E e \in ShownEntities :
       Commit(Scene_add_entity(Begin("add_entity"), "Primitive", e[1], None,
                               e[3], e[2]))

build_shown ==
  /\ ~is_built
  /\ \E n \in {0, MaxEnvs} :
       Commit(Scene_build(Begin("build"), n, [type |-> "tuple", vals |-> <<0, 0>>],
                          NoAttr, TRUE, FALSE))

step_hidden ==
  /\ t < MaxT /\ n_steps < MaxT
  /\ Commit(Scene_step(BeginWith("step", <<FALSE>>), FALSE, << >>))

NextResync ==
  \/ add_shown_entity \/ build_shown \/ step_shown \/ step_hidden
  \/ update \/ draw_transient

SpecResync == InitWith(FrameOptions) /\ [][NextResync]_vars

\* The step loop of scenes with a camera, next to a persistent debug line
\* drawn once the scene is built.
add_shown_camera == ~is_built /\ add_camera

draw_debug_shown ==
  /\ is_built /\ external_nodes = EmptyMap
  /\ Commit(Scene_draw_debug(Begin("draw_debug"), "line", 1))

NextStepLoop ==
  \/ add_shown_entity \/ add_shown_camera \/ build_shown
  \/ step_shown \/ update \/ draw_debug_shown

SpecStepLoop ==
  InitWith({o \in FrameOptions : o.show_cameras}) /\ [][NextStepLoop]_vars

\* The registries: built scenes whose frames are switched on and off, whose
\* rigid nodes are built again, whose debug objects are drawn and cleared,
\* and whose context is destroyed.
NextRegistry ==
  \/ add_rigid_entity \/ add_shown_camera \/ build_shown
  \/ show_frame \/ hide_frame \/ on_rigid_again \/ destroy

SpecRegistry == InitWith(FrameOptions) /\ [][NextRegistry]_vars

\* Contact arrows: scenes of up to two rigid entities, flagged or not, built
\* with or without batching and stepped with the collider reporting no
\* contact, one, or the same contact twice, with a force or without, in
\* environment 0; the other environments have a contact when environment 0
\* has none, and none when it has one.
add_contact_entity ==
  /\ ~is_built /\ Len(entities) <= MaxEntities
  /\ \E vc \in BOOLEAN :
       Commit(Scene_add_entity(Begin("add_entity"), "Primitive", "Rigid", None,
                               vc, None))

ContactReports == ContactInputs \cup {c \o c : c \in ContactInputs}

step_contacts ==
  /\ is_built /\ t < MaxT /\ n_steps < MaxT
  /\ \E first \in ContactReports :
       LET others ==
             IF first = << >> /\ ContactInputs # {<< >>}
             THEN CHOOSE c \in ContactInputs : c # << >> /\ c[1].force > 0
             ELSE << >>
           contacts_info ==
             IF n_envs > 0 THEN [e \in 0..(B - 1) |-> IF e = 0 THEN first ELSE others]
             ELSE first
       IN Commit(Scene_step(BeginWith("step", <<"contacts", contacts_info>>), TRUE,
                            first_env_contacts(St, contacts_info)))

NextContact == add_contact_entity \/ build_shown \/ step_contacts

SpecContact == Init /\ [][NextContact]_vars

\* Surfaces: add_entity called with and without a surface and a material of
\* the caller's, with every kind of mode; the record of the call holds the
\* arguments, the caller's objects before the call and after it.
SurfaceInputs ==
  { NoSurface,
    [kind |-> "Surface", vis_mode |-> None, double_sided |-> "None", smooth |-> TRUE],
    [kind |-> "Surface", vis_mode |-> "recon", double_sided |-> "True", smooth |-> TRUE] }

SurfaceMorphs == {"Primitive", "Terrain"}

SurfaceMaterials ==
  {None, "Rigid", "MPM.Liquid", "PBD.Cloth", "FEM.Elastic", "SF.Smoke",
   "Hybrid", "Plastic"}

SurfaceModes == {None, "visual", "particle", "recon", "wire"}

add_entity_surface ==
  /\ ~is_built /\ Len(entities) < MaxEntities
  /\ \E morph \in SurfaceMorphs, material \in SurfaceMaterials,
        surface \in SurfaceInputs, vis_mode \in SurfaceModes :
       LET objs == [surface |-> surface, sdf_max_res |-> 128]
           after == add_entity_objects(objs, morph, material, vis_mode)
       IN Commit(Scene_add_entity(
            BeginWith("add_entity", <<morph, material, vis_mode, objs, after>>),
            morph, material,
            IF surface = NoSurface THEN None ELSE surface.vis_mode,
            FALSE, vis_mode))

NextSurface == add_entity_surface \/ build_run

SpecSurface == Init /\ [][NextSurface]_vars

\* Emitters: add_emitter called with supported and unsupported materials
\* and with surfaces of every kind of mode, on scenes with and without
\* gradients, next to entities added directly; the record of the call
\* holds the material and the surface's mode.
add_emitter_surface ==
  /\ is_built \/ (Len(entities) <= MaxEntities /\ Len(emitters) < MaxAux)
  /\ \E material \in {"MPM.Liquid", "SPH.Liquid", "Rigid", "FEM.Elastic"},
        surface_vis_mode \in {None, "recon", "visual"} :
       Commit(Scene_add_emitter(
                BeginWith("add_emitter", <<material, surface_vis_mode>>),
                material, surface_vis_mode))

NextEmitter == add_emitter_surface \/ add_plain_entity \/ build_run \/ emit

SpecEmitter == Init /\ [][NextEmitter]_vars

\* The viewer lock: debug objects drawn and cleared, by name, all at once
\* and with an argument that is no node, on built and unbuilt scenes.
NextLock ==
  \/ add_rigid_entity \/ build_run \/ draw_debug \/ clear_debug_object
  \/ clear_debug_objects \/ clear_debug_unnamed

SpecLock == Init /\ [][NextLock]_vars

\* Readiness: forward and reverse runs, complete and interrupted, with
\* resets and checkpoints in between, and the calls that fail in each phase.
NextReady ==
  \/ add_rigid_entity \/ build_run \/ reset_envs \/ step \/ backward
  \/ backward_interrupted \/ save_checkpoint \/ load_checkpoint

SpecReady == Init /\ [][NextReady]_vars

\* The toggles of a context that is never destroyed, with resyncs between
\* the calls.
NextToggle ==
  \/ add_rigid_entity \/ add_shown_camera \/ build_shown
  \/ show_frame \/ hide_frame \/ step_shown

SpecToggle == InitWith(FrameOptions) /\ [][NextToggle]_vars

\* Segmentation ids after build: scenes of both segmentation levels with
\* rigid entities and entities drawn with a node per frame or a static
\* node, stepped, resynchronised and reset, with debug objects drawn.
NextSegStable ==
  \/ add_shown_entity \/ build_shown \/ reset_envs \/ step_shown \/ update
  \/ draw_debug_shown \/ draw_transient

SpecSegStable == Init /\ [][NextSegStable]_vars

\* Linking: scenes of up to two entities, rigid or not, whose links are
\* linked up to twice, one link to itself included; the record of the call
\* holds the two entities and the two names.
add_linked_entity ==
  /\ ~is_built /\ Len(entities) <= MaxEntities
  /\ \E material \in {"Rigid", "MPM.Liquid"} :
       Commit(Scene_add_entity(Begin("add_entity"), "Primitive", material, None,
                               FALSE, None))

link_entities_again ==
  /\ Len(entities) > 0
  /\ is_built \/ SumChildren(links, 1) <= MaxAux
  /\ \E p \in 1..Len(entities), c \in 1..Len(entities), pn \in {"base"},
        cn \in {"base", ""} :
       Commit(Scene_link_entities(BeginWith("link_entities", <<p, c, pn, cn>>),
                                  p, c, pn, cn))

NextLinks == add_linked_entity \/ link_entities_again \/ build_run

SpecLinks == Init /\ [][NextLinks]_vars

\* ------------------------------------------------------------- properties
ConfigOps ==
  {"add_entity", "add_emitter", "add_force_field", "add_camera", "add_light",
   "link_entities"}

configuration == << entities, links, emitters, force_fields, cameras, mesh_lights >>

registries ==
  << scene_nodes, world_frame_node, world_frame_shown, rigid_nodes, static_nodes,
     dynamic_nodes, external_nodes, seg_key_map, seg_idxc_map, seg_node_map,
     seg_colors, buffer >>

\* C1: on a built scene every call of add_entity, add_emitter,
\* add_force_field, add_camera, add_light or link_entities fails with
\* InvalidStateError and leaves the entities, the links' parent and child
\* records, the emitters, the force fields, the cameras and the lights as
\* they were.
C1_ConfigFrozenAfterBuild ==
  [][(is_built /\ op' \in ConfigOps)
       => (exc' = InvalidStateError /\ UNCHANGED configuration)]_vars

\* A built scene with an entity on which add_force_field has just failed.
C1_Witness ==
  /\ is_built /\ Len(entities) > 0
  /\ op = "add_force_field" /\ exc = InvalidStateError

\* C2: a build() call on a built scene fails with InvalidStateError and
\* leaves t, the batch layout, the readiness flags, init_state, the simulator
\* state and the context's registries unchanged.
C2_BuildOnce ==
  [][(is_built /\ op' = "build")
       => (/\ exc' = InvalidStateError
           /\ UNCHANGED << t, n_envs, B, envs_offset, forward_ready, backward_ready,
                           init_state, sim_state, ctx_t, is_built >>
           /\ UNCHANGED registries)]_vars

\* A batched scene with a registered node on which a second build has failed.
C2_Witness ==
  /\ is_built /\ B > 1 /\ scene_nodes # {}
  /\ op = "build" /\ exc = InvalidStateError

EarlyOps ==
  {"step", "reset", "get_state", "draw_debug", "clear_debug_object",
   "clear_debug_objects"}

\* C3: on a scene that is not built, every call of step, reset, get_state,
\* draw_debug_* and clear_debug_object(s) fails with InvalidStateError and
\* leaves t, the readiness flags, init_state, the simulator state and the
\* context's registries unchanged.
C3_RunOpsNeedBuild ==
  [][(~is_built /\ op' \in EarlyOps)
       => (/\ exc' = InvalidStateError
           /\ UNCHANGED << t, forward_ready, backward_ready, init_state, sim_state,
                           ctx_t, is_built >>
           /\ UNCHANGED registries)]_vars

\* An unbuilt scene holding an entity on which reset has just failed.
C3_Witness ==
  /\ ~is_built /\ Len(entities) > 0
  /\ op = "reset" /\ exc = InvalidStateError

\* A reset or a build that returned normally.
Restarted(o, e) == o \in {"reset", "build"} /\ e = NoExc

\* C4: a backward pass that completes consumes backward_ready; until a
\* reset succeeds every further backward() fails with InvalidStateError and
\* changes neither t nor the simulator, whatever the number of steps before
\* the first pass; a successful reset sets backward_ready again, and
\* backward() on a built scene with backward_ready set completes.
C4_OneBackwardPerTrajectory ==
  [][/\ (op' = "backward" /\ exc' = NoExc) => ~backward_ready'
     /\ (is_built /\ ~backward_ready /\ ~Restarted(op', exc')) => ~backward_ready'
     /\ (op' = "backward" /\ ~backward_ready)
          => (exc' = InvalidStateError /\ UNCHANGED << t, sim_state >>
              /\ calls' = << >>)
     /\ (op' = "reset" /\ exc' = NoExc) => backward_ready'
     /\ (op' = "backward" /\ is_built /\ backward_ready) => exc' = NoExc]_vars

\* A second backward() has just failed on a built scene that was stepped and
\* then driven back to t = 0 by the first pass.
C4_Witness ==
  /\ is_built /\ ~backward_ready /\ ~forward_ready /\ t = 0 /\ n_steps > 0
  /\ op = "backward" /\ exc = InvalidStateError

\* The number of simulator steps a call made.
SimSteps(log) == Cardinality({k \in 1..Len(log) : log[k][1] = "sim.step"})

\* C5: a completed backward() clears forward_ready; while it is clear on a
\* built scene, every step() fails with InvalidStateError, invokes no
\* simulator step and leaves t and the simulator state unchanged, and only a
\* successful reset sets it again; a step() directly after a successful
\* reset succeeds.
C5_NoStepAfterBackward ==
  [][/\ (op' = "backward" /\ exc' = NoExc) => ~forward_ready'
     /\ (is_built /\ ~forward_ready /\ ~Restarted(op', exc')) => ~forward_ready'
     /\ (is_built /\ ~forward_ready /\ op' = "step")
          => (exc' = InvalidStateError /\ SimSteps(calls') = 0
              /\ UNCHANGED << t, sim_state, ctx_t >>)
     /\ (op = "reset" /\ exc = NoExc /\ op' = "step")
          => (exc' = NoExc /\ SimSteps(calls') = 1 /\ t' = 1)]_vars

\* A step() has just been refused on a built scene whose backward pass has
\* run.
C5_Witness ==
  /\ is_built /\ ~forward_ready /\ ~backward_ready /\ n_steps > 0
  /\ op = "step" /\ exc = InvalidStateError

\* The calls a backward pass from t = n makes: for t = n down to 1, collect
\* the output gradients at t, then the solvers' reverse step at t.
ReverseTrace(n) ==
  [k \in 1..(2 * n) |->
     IF k % 2 = 1 THEN <<"sim.collect_output_grads", n - (k - 1) \div 2>>
     ELSE <<"sim._step_grad", n - (k - 2) \div 2>>]

\* C6: backward() called with backward_ready set at t = n >= 0 completes
\* after exactly n reverse steps, each of them collecting the output
\* gradients, then running the solvers' reverse step, then decrementing t;
\* it ends with t = 0 and both readiness flags cleared, for n = 0 too.
C6_BackwardReverseSteps ==
  [][(op' = "backward" /\ backward_ready)
       => (/\ t >= 0
           /\ exc' = NoExc
           /\ calls' = ReverseTrace(t)
           /\ t' = 0
           /\ ~forward_ready' /\ ~backward_ready')]_vars

\* A backward pass from t = 2 has completed.
C6_Witness ==
  /\ op = "backward" /\ exc = NoExc /\ Len(calls) = 4 /\ t = 0
  /\ ~forward_ready /\ ~backward_ready

Selected(envs_idx) ==
  CASE envs_idx.kind = "none" -> 0..(B - 1)
    [] envs_idx.kind = "int" -> {envs_idx.k}
    [] envs_idx.kind = "list" -> RangeOf(envs_idx.idxs)

\* C8: a reset(state, envs_idx) that succeeds on a built scene leaves every
\* selected environment of every solver at its value in the snapshot (state,
\* or the registered init_state when state is None) and every other
\* environment as it was, and sets t = 0, forward_ready and backward_ready,
\* the context's time marker to -1 and every emitter's cursor to 0.
C8_ResetPostcondition ==
  [][(is_built /\ op' = "reset" /\ exc' = NoExc)
       => LET snapshot == IF args'[1] = NoState THEN init_state ELSE args'[1]
              sel == Selected(args'[2])
          IN /\ DOMAIN sim_state' = DOMAIN sim_state
             /\ \A f \in DOMAIN sim_state : \A e \in DOMAIN sim_state[f] :
                  sim_state'[f][e] = IF e \in sel THEN snapshot.solvers[f][e]
                                     ELSE sim_state[f][e]
             /\ t' = 0 /\ forward_ready' /\ backward_ready'
             /\ ctx_t' = -1
             /\ \A j \in 1..Len(emitters') : emitters'[j].next_particle = 0]_vars

\* A reset of environment 0 alone has succeeded on a scene of two
\* environments: environment 0 is back at the snapshot, environment 1 is not.
C8_Witness ==
  /\ is_built /\ B = 2 /\ op = "reset" /\ exc = NoExc
  /\ args[2].kind # "none"
  /\ t = 0 /\ ctx_t = -1
  /\ \E f \in DOMAIN sim_state :
       /\ sim_state[f][0] = init_state.solvers[f][0]
       /\ sim_state[f][1] # init_state.solvers[f][1]

\* C9: init_state is the snapshot taken by the successful build or, once
\* reset has been called on the built scene with a state S, the S of the
\* latest such call, and nothing else changes it; reset() with no state and
\* no envs_idx on a built scene, after any number of steps, succeeds, sets
\* t to 0 and sets the simulator state to that init_state.
C9_ResetRoundTrip ==
  [][LET built == op' = "build" /\ exc' = NoExc
         registers == is_built /\ op' = "reset" /\ args'[1] # NoState
     IN /\ built => (init_state' = Sim_get_state(St') /\ t' = 0)
        /\ registers => init_state' = args'[1]
        /\ ~(built \/ registers) => init_state' = init_state
        /\ (is_built /\ op' = "reset" /\ args' = <<NoState, [kind |-> "none"]>>)
             => (/\ exc' = NoExc
                 /\ t' = 0
                 /\ sim_state' = init_state.solvers)]_vars

\* reset() has just restored a scene to a state S that an earlier reset
\* registered in place of the build snapshot.
C9_Witness ==
  /\ is_built /\ op = "reset" /\ exc = NoExc
  /\ args = <<NoState, [kind |-> "none"]>>
  /\ t = 0 /\ sim_state # EmptyMap /\ sim_state = init_state.solvers
  /\ \A f \in DOMAIN sim_state : \A e \in DOMAIN sim_state[f] :
       sim_state[f][e] = MaxVal - 1

\* The solver buffers a checkpoint file holds.
Restored(file) == [f \in DOMAIN sim_state |-> file.arrays[CkptKey(f)]]

\* The scene state a checkpoint is not to touch.
scene_state ==
  << is_built, forward_ready, backward_ready, t, n_envs, B, envs_offset,
     init_state, emitters, entities, links, force_fields, sim_state, ctx_t >>

\* C10: save_checkpoint changes no scene state, and when it succeeds the
\* file holds t and a buffer for every active solver, equal to the solver's
\* state; the file changes at no other moment; a load_checkpoint that
\* succeeds sets t and every solver's state to what the file holds, so that
\* a load after a reset reproduces the state that was saved.
C10_CheckpointRoundTrip ==
  [][/\ op' = "save_checkpoint"
          => (/\ UNCHANGED scene_state /\ UNCHANGED registries
              /\ exc' = NoExc
                   => (/\ ckpt_file'.step_index = t
                       /\ DOMAIN ckpt_file'.arrays = {CkptKey(f) : f \in DOMAIN sim_state}
                       /\ Restored(ckpt_file') = sim_state))
     /\ ~(op' = "save_checkpoint" /\ exc' = NoExc) => ckpt_file' = ckpt_file
     /\ (op' = "load_checkpoint" /\ exc' = NoExc)
          => (/\ t' = ckpt_file.step_index
              /\ sim_state' = Restored(ckpt_file))]_vars

\* A checkpoint saved after a step has been loaded into the scene after a
\* reset: t and the buffers are those of the file, not those of the reset.
C10_Witness ==
  /\ op = "load_checkpoint" /\ exc = NoExc /\ n_steps = 0
  /\ t > 0 /\ t = ckpt_file.step_index
  /\ sim_state # EmptyMap /\ sim_state = Restored(ckpt_file)
  /\ sim_state # init_state.solvers

\* The resync passes of a call: each asks the simulator for its visual
\* states once.
ResyncPasses(log) ==
  Cardinality({k \in 1..Len(log) : log[k][1] = "update_visual_states"})

\* C11: update() of the render mirror does nothing when the mirror's time
\* index is not behind the scene's; otherwise it sets the index to the
\* scene's and runs one resync pass.  An update() that follows an update()
\* with no step between them runs no pass.
C11_UpdateIdempotent ==
  [][(op' = "update" /\ ctx_t # NoAttr)
       => /\ ctx_t >= t =>
               /\ ResyncPasses(calls') = 0
               /\ exc' = NoExc
               /\ UNCHANGED << ctx_t, t, registries, sim_state >>
          /\ ctx_t < t => (ctx_t' = t /\ ResyncPasses(calls') = 1)
          /\ (op = "update" /\ exc = NoExc) => ResyncPasses(calls') = 0]_vars

C11_Witness ==
  /\ op = "update" /\ exc = NoExc
  /\ t > 0 /\ ctx_t = t
  /\ ResyncPasses(calls) = 0
  /\ dynamic_nodes # << >>

\* Everything of the scene and of the context but the external registry and
\* the renderer scene.
apart_from_external ==
  << is_built, forward_ready, backward_ready, t, sim_state, init_state,
     configuration, ctx_t, world_frame_node, world_frame_shown, rigid_nodes,
     static_nodes, dynamic_nodes, seg_key_map, seg_idxc_map, seg_node_map,
     seg_colors, buffer >>

\* C12: adding an external node under a name that is registered fails with
\* DuplicateNameError, adding one with no name or an empty name fails with
\* ConfigError, and both leave the external registry and the renderer scene
\* as they were; any other name is registered with a new live node.  Every
\* registered name has one node, which is live and is no other name's.
C12_ExternalNamesUnique ==
  [][/\ op' = "add_external_node" =>
          LET name == args'[1]
          IN /\ name \in {None, ""} =>
                  (exc' = ConfigError /\ UNCHANGED << external_nodes, scene_nodes >>)
             /\ (name \notin {None, ""} /\ name \in DOMAIN external_nodes) =>
                  (exc' = DuplicateNameError
                     /\ UNCHANGED << external_nodes, scene_nodes >>)
             /\ (name \notin {None, ""} /\ name \notin DOMAIN external_nodes) =>
                  /\ exc' = NoExc
                  /\ DOMAIN external_nodes' = DOMAIN external_nodes \cup {name}
                  /\ external_nodes'[name] \notin scene_nodes
                  /\ scene_nodes' = scene_nodes \cup {external_nodes'[name]}
                  /\ \A n \in DOMAIN external_nodes :
                       external_nodes'[n] = external_nodes[n]
     /\ \A n \in DOMAIN external_nodes' :
          /\ external_nodes'[n] \in scene_nodes'
          /\ \A m \in DOMAIN external_nodes' :
               external_nodes'[m] = external_nodes'[n] => m = n]_vars

C12_Witness ==
  /\ op = "add_external_node" /\ exc = DuplicateNameError
  /\ args[1] \in DOMAIN external_nodes
  /\ Cardinality(DOMAIN external_nodes) = 2

\* C13: clear_external_node for a name that is not registered raises
\* nothing and changes nothing; for a registered name it removes the name's
\* node from the renderer scene and the name from the registry and nothing
\* else, so that a second removal of the same name finds it not registered.
C13_RemovalIdempotent ==
  [][op' = "clear_external_node" =>
       LET name == args'[1]
       IN /\ exc' = NoExc
          /\ UNCHANGED apart_from_external
          /\ name \notin DOMAIN external_nodes'
          /\ name \notin DOMAIN external_nodes =>
               UNCHANGED << external_nodes, scene_nodes >>
          /\ name \in DOMAIN external_nodes =>
               /\ external_nodes' = Del(external_nodes, name)
               /\ scene_nodes' = scene_nodes \ {external_nodes[name]}
               /\ external_nodes[name] \in scene_nodes]_vars

C13_Witness ==
  /\ op = "clear_external_node" /\ exc = NoExc
  /\ args[1] \notin DOMAIN external_nodes
  /\ external_nodes # EmptyMap

\* The two segmentation tables are each other's inverse, the background key
\* has id 0, and the ids in use are 0..N for N keys other than the
\* background's.
SegTablesConsistent(key_map, idxc_map) ==
  /\ <<-1>> \in DOMAIN key_map /\ key_map[<<-1>>] = 0
  /\ DOMAIN idxc_map = 0..(Cardinality(DOMAIN key_map) - 1)
  /\ \A k \in DOMAIN key_map :
       key_map[k] \in DOMAIN idxc_map /\ idxc_map[key_map[k]] = k
  /\ \A i \in DOMAIN idxc_map :
       idxc_map[i] \in DOMAIN key_map /\ key_map[idxc_map[i]] = i

\* C14: id 0 is the background's; a key looked up for the first time when N
\* keys have ids gets id N + 1 and a key seen before gets the id it has; no
\* operation changes the id of a key; the key-to-id and id-to-key tables
\* are mutual inverses.
C14_SegIdsInEncounterOrder ==
  [][/\ SegTablesConsistent(seg_key_map, seg_idxc_map)
     /\ SegTablesConsistent(seg_key_map', seg_idxc_map')
     /\ \A k \in DOMAIN seg_key_map :
          k \in DOMAIN seg_key_map' /\ seg_key_map'[k] = seg_key_map[k]
     /\ op' = "seg_key_to_idxc" =>
          LET seg_key == args'[1]
              N == Cardinality(DOMAIN seg_key_map \ {<<-1>>})
          IN /\ exc' = NoExc
             /\ seg_key \in DOMAIN seg_key_map =>
                  UNCHANGED << seg_key_map, seg_idxc_map >>
             /\ seg_key \notin DOMAIN seg_key_map =>
                  /\ DOMAIN seg_key_map' = DOMAIN seg_key_map \cup {seg_key}
                  /\ seg_key_map'[seg_key] = N + 1]_vars

C14_Witness ==
  /\ op = "seg_key_to_idxc" /\ exc = NoExc
  /\ Cardinality(DOMAIN seg_key_map) = Cardinality(SegKeys)
  /\ seg_key_map[args[1]] = 1

\* All environments, as the sanitiser returns them for None.
AllEnvs == [j \in 1..B |-> j - 1]

\* C15 as stated: on a built scene with B = 1 the sanitiser returns all
\* environments for None and raises ConfigError for every other selector,
\* and so does reset.
C15_RejectsSelectorsWhenBIsOne ==
  [][(is_built /\ B = 1)
       => /\ op' = "_sanitize_envs_idx" =>
               IF args'[1].kind = "none"
               THEN exc' = NoExc /\ args'[3] = AllEnvs
               ELSE exc' = ConfigError
          /\ (op' = "reset" /\ args'[2].kind # "none") => exc' = ConfigError]_vars

\* C15: on a built scene that is not parallelized (n_envs = 0, hence B = 1)
\* the sanitiser returns all environments for None and raises ConfigError
\* for every other selector, whatever the unsafe flag, and reset with a
\* selector other than None raises ConfigError; a scene built with
\* n_envs = 1 has B = 1 too and has its selectors accepted.
C15_RejectsSelectorsWhenUnbatched ==
  [][/\ (is_built /\ n_envs = 0)
         => /\ B = 1
            /\ op' = "_sanitize_envs_idx" =>
                 IF args'[1].kind = "none"
                 THEN exc' = NoExc /\ args'[3] = AllEnvs
                 ELSE exc' = ConfigError
            /\ (op' = "reset" /\ args'[2].kind # "none") => exc' = ConfigError
     /\ (is_built /\ n_envs = 1 /\ op' = "_sanitize_envs_idx"
          /\ args'[1].kind \in {"int", "slice"})
         => (B = 1 /\ exc' = NoExc)]_vars

C15_Witness ==
  /\ is_built /\ n_envs = 0 /\ B = 1
  /\ op = "_sanitize_envs_idx" /\ exc = ConfigError
  /\ args[1].kind = "slice"

\* Twice the grid position of environment i in rows of r.
GridPlace2(i, r, vals) == << 2 * (i \div r) * vals[1], 2 * (i % r) * vals[2], 0 >>

\* C16: a successful build(n_envs, env_spacing, n_envs_per_row,
\* center_envs_at_origin) leaves B = max(1, n_envs), r = n_envs_per_row or,
\* for None, the least r with r * r >= B, and environment i at
\* ((i div r) * spacing[0], (i mod r) * spacing[1], 0) minus one vector
\* that is the same for every i: zero without centring, and with centring
\* such that the least and the greatest offset on each axis sum to zero.
\* (Offsets are held doubled.)
C16_EnvsOffsetGrid ==
  [][(op' = "build" /\ exc' = NoExc /\ args' # << >>)
       => LET n == args'[1]
              vals == args'[2].vals
              per_row == args'[3]
              center == args'[4]
              r == n_envs_per_row'
              shift == [a \in 1..3 |-> GridPlace2(0, r, vals)[a] - envs_offset'[0][a]]
          IN /\ B' = (IF n >= 1 THEN n ELSE 1)
             /\ IF per_row = NoAttr
                THEN r * r >= B' /\ (r - 1) * (r - 1) < B'
                ELSE r = per_row
             /\ DOMAIN envs_offset' = 0..(B' - 1)
             /\ \A i \in 0..(B' - 1) : \A a \in 1..3 :
                  envs_offset'[i][a] = GridPlace2(i, r, vals)[a] - shift[a]
             /\ ~center => shift = <<0, 0, 0>>
             /\ center =>
                  \A a \in 1..3 :
                    MaxOf({envs_offset'[i][a] : i \in 0..(B' - 1)})
                      + MinOf({envs_offset'[i][a] : i \in 0..(B' - 1)}) = 0]_vars

C16_Witness ==
  /\ op = "build" /\ exc = NoExc /\ args # << >>
  /\ B = 2 * MaxEnvs /\ n_envs_per_row = 2 /\ args[4]
  /\ envs_offset[0] # envs_offset[B - 1]
  /\ envs_offset[0][1] < 0 /\ envs_offset[0][2] < 0

C18_CompileStepReverted ==
  [][(op' = "build" /\ exc' = NoExc /\ args' # << >>)
       => LET plain == Scene_build(BeginWith("build", args'), args'[1], args'[2],
                                   args'[3], args'[4], FALSE)
          IN /\ t' = 0 /\ forward_ready' /\ backward_ready' /\ ctx_t' = -1
             /\ n_steps' = 0
             /\ init_state' # NoState /\ sim_state' = init_state'.solvers
             /\ [St' EXCEPT !.calls = << >>] = [plain EXCEPT !.calls = << >>]
             /\ SimSteps(calls') = (IF args'[5] THEN 1 ELSE 0)]_vars

C18_Witness ==
  /\ op = "build" /\ exc = NoExc /\ args # << >>
  /\ args[5] /\ SimSteps(calls) = 1
  /\ DOMAIN sim_state # {} /\ t = 0 /\ ctx_t = -1

\* C19: with a segmentation level other than "entity" and "link",
\* add_rigid_node raises and leaves the renderer scene, the registry of
\* rigid nodes and the segmentation tables as they were.
C19_RigidNodeFailsFast ==
  [][(op' = "add_rigid_node" /\ segmentation_level \notin {"entity", "link"})
       => /\ exc' # NoExc
          /\ UNCHANGED << scene_nodes, rigid_nodes, seg_key_map, seg_idxc_map,
                          seg_node_map >>]_vars

\* An index list of one dimension whose indices all lie in [0, B).
ListInRange(envs_idx) ==
  /\ envs_idx.ndim = 1
  /\ \A j \in 1..Len(envs_idx.idxs) : envs_idx.idxs[j] >= 0 /\ envs_idx.idxs[j] < B

\* C20 as stated: on a batched scene the sanitiser, whatever its unsafe
\* flag, returns an index list if it is of one dimension with every index
\* in [0, B) and raises RangeError for every other list.
C20_ListsValidatedForEveryCaller ==
  [][(is_built /\ n_envs > 0 /\ op' = "_sanitize_envs_idx"
      /\ args'[1].kind = "list")
       => IF ListInRange(args'[1])
          THEN exc' = NoExc /\ args'[3] = args'[1].idxs
          ELSE exc' = RangeError]_vars

\* C20: on a batched scene the sanitiser called without the unsafe flag
\* returns an index list if it is of one dimension with every index in
\* [0, B) and raises RangeError for every other list; called with the
\* unsafe flag it returns every list as it is.
C20_ListsValidatedUnlessUnsafe ==
  [][(is_built /\ n_envs > 0 /\ op' = "_sanitize_envs_idx"
      /\ args'[1].kind = "list")
       => /\ B = n_envs
          /\ ~args'[2] =>
               IF ListInRange(args'[1])
               THEN exc' = NoExc /\ args'[3] = args'[1].idxs
               ELSE exc' = RangeError
          /\ args'[2] => (exc' = NoExc /\ args'[3] = args'[1].idxs)]_vars

C20_Witness ==
  /\ is_built /\ n_envs > 1
  /\ op = "_sanitize_envs_idx" /\ args[1].kind = "list" /\ ~args[2]
  /\ exc = RangeError
  /\ args[1].ndim = 1 /\ \E j \in 1..Len(args[1].idxs) : args[1].idxs[j] >= B

\* C21: on a batched scene the sanitiser returns, for every integer k it
\* accepts, the selection of length 1 that holds environment k, and for a
\* slice lo:hi the environments of [0, B) from lo up to hi.
C21_IntegerPromoted ==
  [][(is_built /\ n_envs > 0 /\ op' = "_sanitize_envs_idx" /\ exc' = NoExc)
       => /\ args'[1].kind = "int" => args'[3] = << args'[1].k >>
          /\ args'[1].kind = "slice" =>
               /\ \A j \in 1..Len(args'[3]) : args'[3][j] = args'[1].lo + j - 1
               /\ RangeOf(args'[3]) =
                    {e \in 0..(B - 1) : args'[1].lo <= e /\ e < args'[1].hi}]_vars

\* C22: save_checkpoint fails with IOError when its file cannot be opened
\* and load_checkpoint when its file cannot be opened or is not there; a
\* load_checkpoint that fails leaves the solvers' buffers, t and the two
\* readiness flags as they were, and a save_checkpoint that fails leaves
\* the file as it was.
C22_CheckpointIOError ==
  [][/\ op' = "save_checkpoint" =>
          /\ ~args'[1] => (exc' = "IOError" /\ ckpt_file' = ckpt_file)
          /\ args'[1] => exc' = NoExc
     /\ op' = "load_checkpoint" =>
          /\ (~args'[1] \/ ckpt_file = NoFile) => exc' = "IOError"
          /\ exc' # NoExc =>
               UNCHANGED << sim_state, t, forward_ready, backward_ready,
                            init_state, ctx_t, registries >>]_vars

C22_Witness ==
  /\ op = "load_checkpoint" /\ exc = "IOError"
  /\ ckpt_file # NoFile /\ ckpt_file.step_index # t
  /\ sim_state # EmptyMap /\ sim_state # Restored(ckpt_file)

\* C23: a load_checkpoint whose file can be opened returns normally
\* whatever keys the file holds; it sets each solver's buffer to the file's
\* array of the solver's key when the file has that key and leaves it as it
\* was when not, changes nothing for a key that names no buffer, and sets t
\* to the step index the file holds.
C23_LoadByKeyPresence ==
  [][(op' = "load_checkpoint" /\ args'[1] /\ ckpt_file # NoFile)
       => /\ exc' = NoExc
          /\ DOMAIN sim_state' = DOMAIN sim_state
          /\ \A f \in DOMAIN sim_state :
               sim_state'[f] = IF CkptKey(f) \in DOMAIN ckpt_file.arrays
                               THEN ckpt_file.arrays[CkptKey(f)]
                               ELSE sim_state[f]
          /\ ckpt_file.step_index # NoAttr => t' = ckpt_file.step_index
          /\ UNCHANGED << ckpt_file, init_state, forward_ready, backward_ready,
                          configuration, registries >>]_vars

C23_Witness ==
  /\ op = "load_checkpoint" /\ exc = NoExc
  /\ CkptKey("Legacy") \in DOMAIN ckpt_file.arrays
  /\ \E f \in DOMAIN sim_state :
       /\ CkptKey(f) \notin DOMAIN ckpt_file.arrays
       /\ sim_state[f] # [e \in 0..(B - 1) |-> MaxVal - 1]
  /\ t = ckpt_file.step_index /\ n_steps # t

\* C24: a build of a scene that is not built, if it raises, leaves the
\* scene not built and n_envs, B, t and the two readiness flags as they
\* were.
C24_BuildAtomic ==
  [][(op' = "build" /\ ~is_built /\ exc' # NoExc)
       => /\ ~is_built'
          /\ UNCHANGED << n_envs, B, t, forward_ready, backward_ready >>]_vars

\* C25: a reset of a built scene, if it raises, leaves the registered
\* initial state, t, the two readiness flags and the mirror's time index as
\* they were.
C25_FailedResetKeepsInitState ==
  [][(op' = "reset" /\ is_built /\ exc' # NoExc)
       => UNCHANGED << init_state, t, forward_ready, backward_ready, ctx_t >>]_vars

\* C26: after every step(update_visualizer=True) that returns normally the
\* mirror's time index equals the scene's t.
C26_StepSynchronisesMirror ==
  [][(op' = "step" /\ args' = <<TRUE>> /\ exc' = NoExc) => ctx_t' = t']_vars

\* The phases of a resync pass, in the order of the claim.
PassOrder ==
  << "clear_dynamic_nodes", "update_visual_states", "_scene._bounds = None",
     "buffer.clear", "update_link_frame", "update_tool", "update_rigid",
     "update_contact", "update_avatar", "update_mpm", "update_sph", "update_pbd",
     "update_fem" >>

IsPhase(call) == call[1] \in RangeOf(PassOrder)

Phases(log) ==
  [k \in 1..Len(SelectSeq(log, IsPhase)) |-> SelectSeq(log, IsPhase)[k][1]]

Position(log, name) == CHOOSE k \in 1..Len(log) : log[k][1] = name

\* A call that runs an effective pass: update(), or step with
\* update_visualizer=True, while the mirror's time index is behind.
EffectivePass ==
  /\ is_built /\ ctx_t # NoAttr /\ exc' = NoExc
  /\ \/ op' = "update" /\ ctx_t < t
     \/ op' = "step" /\ args' = <<TRUE>> /\ ctx_t < t'

\* C27: an effective pass runs its phases in the order PassOrder: the
\* dynamic nodes are removed before the visualisation-only state is
\* recomputed, then the bounds are invalidated and the buffer-update map is
\* emptied, then the families are updated, link frames first and FEM last;
\* every node of the pass is added after the buffer-update map was emptied.
C27_PassPhasesInOrder ==
  [][EffectivePass
       => /\ Phases(calls') = PassOrder
          /\ \A k \in 1..Len(calls') :
               /\ calls'[k][1] = "scene.remove_node"
                    => k < Position(calls', "update_visual_states")
               /\ calls'[k][1] = "scene.add"
                    => k > Position(calls', "buffer.clear")]_vars

\* An update that has removed a node of the frame before and added one.
C27_Witness ==
  /\ op = "update" /\ exc = NoExc /\ link_frame_nodes # EmptyMap
  /\ Phases(calls) = PassOrder
  /\ \E j, k \in 1..Len(calls) :
       calls[j][1] = "scene.remove_node" /\ calls[k][1] = "scene.add"

IsAdd(call) == call[1] = "scene.add"

\* The nodes a call has added to the renderer scene, in the order added.
Added(log) ==
  [k \in 1..Len(SelectSeq(log, IsAdd)) |-> SelectSeq(log, IsAdd)[k][2]]

\* C28: an effective pass removes every node of the dynamic list it starts
\* with from the renderer scene and from the segmentation node map, and
\* leaves in the list exactly the nodes it has added itself.  (A node object
\* the pass adds may take the place of one it removed; the clearing is
\* therefore looked at where the pass runs it, before anything is added.)
C28_NoDynamicNodeSurvives ==
  [][EffectivePass
       => /\ \A n \in RangeOf(dynamic_nodes) :
               \E k \in 1..Len(calls') : calls'[k] = <<"scene.remove_node", n>>
          /\ LET cleared == clear_dynamic_nodes(Begin("update"))
             IN /\ cleared.scene_nodes \cap RangeOf(dynamic_nodes) = {}
                /\ DOMAIN cleared.seg_node_map \cap RangeOf(dynamic_nodes) = {}
                /\ cleared.dynamic_nodes = << >>
          /\ \A n \in RangeOf(dynamic_nodes) \ RangeOf(Added(calls')) :
               n \notin scene_nodes' /\ n \notin DOMAIN seg_node_map'
          /\ dynamic_nodes' = Added(calls')]_vars

\* An update that has removed two dynamic nodes, one of them a transient
\* debug node, and has added a node with a segmentation entry.
C28_Witness ==
  /\ op = "update" /\ exc = NoExc
  /\ Cardinality({k \in 1..Len(calls) : calls[k][1] = "scene.remove_node"}) = 2
  /\ Len(dynamic_nodes) = 1 /\ dynamic_nodes[1] \in DOMAIN seg_node_map

\* The persistent registries of the context, and the nodes of the renderer
\* scene that are not dynamic nodes.
persistent_registries ==
  << external_nodes, static_nodes, rigid_nodes, link_frame_nodes, frustum_nodes,
     world_frame_node, scene_nodes \ RangeOf(dynamic_nodes) >>

\* C29: step() and update() leave the keys and the nodes of the external,
\* static, rigid, link-frame and frustum registries and the world frame as
\* they were, and add to and remove from the renderer scene dynamic nodes
\* only.
C29_StepLoopKeepsPersistentNodes ==
  [][(op' \in {"step", "update"}) => UNCHANGED persistent_registries]_vars

\* A step that has drawn contact arrows in a scene with rigid, link-frame,
\* frustum and external nodes.
C29_Witness ==
  /\ op = "step" /\ args = <<TRUE>> /\ exc = NoExc
  /\ \E k \in 1..Len(calls) : calls[k] = <<"get_contacts">> /\ k < Len(calls)
  /\ dynamic_nodes # << >>
  /\ rigid_nodes # EmptyMap /\ link_frame_nodes # EmptyMap
  /\ frustum_nodes # EmptyMap /\ external_nodes # EmptyMap

\* An update that has written the buffer of a static node.
C29_StaticWitness ==
  /\ op = "update" /\ exc = NoExc /\ static_nodes # EmptyMap
  /\ \E k \in DOMAIN static_nodes : <<static_nodes[k], "model">> \in DOMAIN buffer

\* C30: every node of the renderer scene is referred to by an entry of a
\* registry (world frame, link frames, frustums, rigid, static, external,
\* dynamic), and after destroy() the renderer scene holds no node and the
\* segmentation node map refers to no node that was removed.
C30_RegistriesMatchScene ==
  /\ scene_nodes \subseteq RegisteredNodes
  /\ (op = "destroy" /\ exc = NoExc)
       => (scene_nodes = {} /\ DOMAIN seg_node_map \subseteq scene_nodes)

\* The contacts of environment 0 in the report of a step_contacts call.
Reported(arguments) ==
  IF n_envs > 0 THEN arguments[2][0] ELSE arguments[2]

Flagged(link_idx) == links[link_idx + 1].visualize_contact

\* The flagged ends of the contacts of a report.
FlaggedEnds(report) ==
  { <<i, side>> \in (1..Len(report)) \X {"a", "b"} :
      Flagged(IF side = "a" THEN report[i].link_a ELSE report[i].link_b) }

Fetches(log) == Cardinality({k \in 1..Len(log) : log[k] = <<"get_contacts">>})

ContactStep == op' = "step" /\ Len(args') = 2 /\ args'[1] = "contacts" /\ exc' = NoExc

AnyFlagged == \E k \in 1..Len(links) : links[k].visualize_contact

ArrowsOf(report) ==
  Cardinality(FlaggedEnds(report))
    + Cardinality({x \in FlaggedEnds(report) : report[x[1]].force > 0})

C31_OtherEnvsWitness ==
  /\ op = "step" /\ Len(args) = 2 /\ args[1] = "contacts" /\ exc = NoExc
  /\ n_envs > 0 /\ args[2][0] = << >> /\ args[2][1] # << >>
  /\ Flagged(args[2][1][1].link_a) /\ dynamic_nodes = << >> /\ Fetches(calls) = 1

ClaimedModes(material) ==
  CASE material \in {"Rigid", "Avatar", "Tool"} -> {"visual", "collision", "sdf"}
    [] material \in {"PBD.Liquid", "PBD.Particle", "MPM.Liquid", "MPM.Sand",
                     "MPM.Snow", "SPH.Liquid"} -> {"particle", "recon"}
    [] material = "SF.Smoke" -> {"particle"}
    [] material \in {"PBD.Cloth", "PBD.Elastic", "MPM.Elastic"} ->
         {"visual", "particle", "recon"}
    [] material = "FEM.Elastic" -> {"visual"}
    [] material = "Hybrid" -> {"particle", "visual"}
    [] OTHER -> {}

ClaimedDefault(material) ==
  IF material \in {"PBD.Liquid", "PBD.Particle", "MPM.Liquid", "MPM.Sand",
                   "MPM.Snow", "SPH.Liquid", "SF.Smoke", "Hybrid"}
  THEN "particle" ELSE "visual"

\* The mode an add_entity call asks for: vis_mode, else the surface's, else
\* the default of the material.
AskedMode(arguments) ==
  LET mat == IF arguments[2] = None THEN "Rigid" ELSE arguments[2]
      surface_mode == IF arguments[4].surface = NoSurface THEN None
                      ELSE arguments[4].surface.vis_mode
      given == IF arguments[3] # None THEN arguments[3] ELSE surface_mode
  IN IF given = None THEN ClaimedDefault(mat) ELSE given

SurfaceCall == op' = "add_entity" /\ Len(args') = 5 /\ ~is_built

\* The mode of an add_entity call on a scene that is not built is tested
\* against the modes of the material: a call that returns has added one
\* entity with the mode asked for, which is one of the material's; a call
\* that raises has raised ConfigError and added no entity; a call with a
\* mode that is not one of the material's raises.
AddEntityTestsMode ==
  [][SurfaceCall
       => LET mat == IF args'[2] = None THEN "Rigid" ELSE args'[2]
          IN /\ exc' \in {NoExc, ConfigError}
             /\ AskedMode(args') \notin ClaimedModes(mat) => exc' = ConfigError
             /\ exc' = NoExc =>
                   /\ AskedMode(args') \in ClaimedModes(mat)
                   /\ Len(entities') = Len(entities) + 1
                   /\ entities'[Len(entities')].vis_mode = AskedMode(args')
                   /\ entities'[Len(entities')].material = mat
             /\ exc' = ConfigError => UNCHANGED << entities, links >>]_vars

\* C32: as above, and a call that raises leaves the surface and the
\* material of the caller as they were.
C32_AddEntityTestsModeFirst ==
  [][SurfaceCall
       => LET mat == IF args'[2] = None THEN "Rigid" ELSE args'[2]
          IN /\ exc' \in {NoExc, ConfigError}
             /\ AskedMode(args') \notin ClaimedModes(mat) => exc' = ConfigError
             /\ exc' = NoExc =>
                   /\ AskedMode(args') \in ClaimedModes(mat)
                   /\ Len(entities') = Len(entities) + 1
                   /\ entities'[Len(entities')].vis_mode = AskedMode(args')
             /\ exc' = ConfigError =>
                   /\ UNCHANGED << entities, links >>
                   /\ args'[5] = args'[4]]_vars

EmitterMaterialsClaimed ==
  {"MPM.Liquid", "MPM.Sand", "MPM.Snow", "MPM.Elastic", "SPH.Liquid",
   "PBD.Particle", "PBD.Liquid"}

\* C33: an add_emitter call either raises and leaves the emitters, the
\* entities and the links as they were, which it always does on a scene
\* with gradients and for an unsupported material, or it adds one entity
\* and appends one emitter bound to that entity; every emitter of the list
\* is bound to an entity of the scene.
C33_EmitterWithEntityOrNothing ==
  [][(op' = "add_emitter" /\ Len(args') = 2)
       => /\ \/ exc' # NoExc /\ UNCHANGED << emitters, entities, links >>
             \/ /\ exc' = NoExc
                /\ Len(entities') = Len(entities) + 1
                /\ SubSeq(entities', 1, Len(entities)) = entities
                /\ Len(emitters') = Len(emitters) + 1
                /\ SubSeq(emitters', 1, Len(emitters)) = emitters
                /\ emitters'[Len(emitters')].entity = Len(entities')
          /\ (requires_grad \/ args'[1] \notin EmitterMaterialsClaimed) => exc' # NoExc
          /\ \A j \in 1..Len(emitters') : emitters'[j].entity \in 1..Len(entities')]_vars

\* An emitter added after an entity, and an add_emitter call with a
\* supported material that has failed on the mode of its surface.
C33_Witness ==
  /\ op = "add_emitter" /\ exc = NoExc /\ Len(entities) = 2 /\ Len(emitters) = 1
  /\ emitters[1].entity = 2

C33_FailureWitness ==
  /\ op = "add_emitter" /\ exc = ConfigError /\ ~requires_grad /\ ~is_built
  /\ args = <<"MPM.Liquid", "visual">> /\ emitters = << >>

DebugOps == {"draw_debug", "clear_debug_object", "clear_debug_objects"}

IsLockCall(call) == call[1] \in {"viewer_lock.acquire", "viewer_lock.release"}

IsSceneGraphCall(call) == call[1] \in {"scene.add", "scene.remove_node"}

Locked == << <<"viewer_lock.acquire">>, <<"viewer_lock.release">> >>

C34_DrawWitness ==
  /\ op = "draw_debug" /\ exc = NoExc /\ Len(calls) = 3
  /\ calls[1] = <<"viewer_lock.acquire">> /\ calls[2][1] = "scene.add"
  /\ calls[3] = <<"viewer_lock.release">>

\* C35: forward_ready and backward_ready are equal in every reachable
\* state: both are false on a scene that is not built, a build or a reset
\* that returns leaves both true, a backward that returns leaves both
\* false, and every other call, failed calls and a backward interrupted
\* midway included, leaves both as they were.
C35_ReadinessFlagsAgree ==
  /\ [](forward_ready = backward_ready)
  /\ [](~is_built => (~forward_ready /\ ~backward_ready))
  /\ [][/\ ((op' \in {"build", "reset"} /\ exc' = NoExc)
              => (forward_ready' /\ backward_ready'))
         /\ ((op' = "backward" /\ exc' = NoExc)
              => (~forward_ready' /\ ~backward_ready'))
         /\ ((exc' # NoExc \/ op' \notin {"build", "reset", "backward"})
              => UNCHANGED << forward_ready, backward_ready >>)]_vars

\* A backward that has run the reverse steps and returned, a backward
\* interrupted after its first reverse step, a checkpoint loaded after a
\* backward, and a reset that has failed after a backward.
C35_Witness ==
  /\ op = "backward" /\ exc = NoExc /\ ~forward_ready /\ ~backward_ready
  /\ \E k \in 1..Len(calls) : calls[k][1] = "sim._step_grad"

C35_FailedResetWitness ==
  /\ op = "reset" /\ exc # NoExc /\ is_built /\ ~forward_ready /\ ~backward_ready

C35_InterruptedWitness ==
  /\ op = "backward" /\ exc = "RuntimeError" /\ t = 1
  /\ forward_ready /\ backward_ready
  /\ \E k \in 1..Len(calls) : calls[k][1] = "sim._step_grad"

C35_AfterBackwardWitness ==
  /\ op = "load_checkpoint" /\ exc = NoExc /\ ~forward_ready /\ ~backward_ready
  /\ is_built

\* C36: on a built scene the mirror's time index never exceeds the
\* scene's, whatever the order of step, update, reset, backward and
\* load_checkpoint.
C36_MirrorNeverAhead == [](is_built => ctx_t <= t)

\* C37: on a built scene no step and no update fails on a key that is
\* missing in a registry: the pass finds a node for every tool entity, with
\* or without a mesh, for every geom, for every link whose frame is shown
\* and for every entity drawn with a static node.
C37_ResyncFindsItsNodes ==
  [][(is_built /\ op' \in {"step", "update"}) => exc' # "KeyError"]_vars

FrameOps ==
  {"on_world_frame", "off_world_frame", "on_link_frame", "off_link_frame",
   "on_camera_frustum", "off_camera_frustum"}

\* The toggles without destroy: every state of a built context in which
\* no destroy() has run has its toggles and registries in agreement.
TogglesAgree ==
  /\ world_frame_shown <=> world_frame_node # NoNode
  /\ camera_frustum_shown
       => \A k \in 1..Len(cameras) : cameras[k] \in DOMAIN frustum_nodes
  /\ (link_frame_shown /\ "rigid" \in active_solvers(St))
       => RigidLinks(St) \subseteq DOMAIN link_frame_nodes

\* C38: on a built scene each display toggle agrees with its registry:
\* the world frame is shown exactly if its node is set, shown frustums
\* have a node for every camera, shown link frames have a node for every
\* link of an active rigid solver; this holds after every sequence of
\* on_*, off_* and destroy() calls, and no on_* or off_* call raises.
C38_TogglesAgreeWithRegistries ==
  /\ [](is_built => TogglesAgree)
  /\ [][op' \in FrameOps => exc' = NoExc]_vars

\* The id behind a colour key of the renderer.
IdxcOfRgb(rgb) == rgb[1] * 65536 + rgb[2] * 256 + rgb[3]

\* C39: once the scene is built, no step, resync, reset or debug drawing
\* adds a segmentation key or changes the id of one, and the colour table
\* stays as build made it: one row per allocated id, id 0 the
\* background's, so that the id of every node lies in the table.
C39_SegIdsFixedByBuild ==
  /\ [][(is_built /\ op' # "build")
          => UNCHANGED << seg_key_map, seg_idxc_map, seg_colors >>]_vars
  /\ [](is_built
          => /\ seg_colors = Cardinality(DOMAIN seg_key_map)
             /\ seg_key_map[<<-1>>] = 0
             /\ Values(seg_key_map) = 0..(seg_colors - 1)
             /\ \A n \in DOMAIN seg_node_map :
                  /\ IdxcOfRgb(seg_node_map[n]) \in 0..(seg_colors - 1)
                  /\ seg_idxc_to_idxc_rgb(IdxcOfRgb(seg_node_map[n])) = seg_node_map[n])

\* A second resync that has given the per-frame node of an entity its id
\* again, in a scene with three ids.
C39_Witness ==
  /\ op = "step" /\ exc = NoExc /\ t = 2 /\ ctx_t = 2 /\ seg_colors = 3
  /\ \E k \in 1..Len(dynamic_nodes) :
       /\ dynamic_nodes[k] \in DOMAIN seg_node_map
       /\ IdxcOfRgb(seg_node_map[dynamic_nodes[k]]) > 0

C39_LinkLevelWitness ==
  /\ op = "step" /\ exc = NoExc /\ t = 2 /\ ctx_t = 2 /\ seg_colors = 3
  /\ \E key \in DOMAIN seg_key_map : Len(key) = 2

C39_ResetWitness ==
  /\ op = "reset" /\ exc = NoExc /\ is_built /\ buffer # EmptyMap
  /\ seg_colors = 3

\* The number of times idx stands in a child list.
IsChildEntry(idxs, idx) == {j \in 1..Len(idxs) : idxs[j] = idx}

\* What link_entities does call by call: a call with an entity that is not
\* rigid raises and changes no link; a call that returns has set the
\* child's parent index to the parent's index and appended the child's
\* index to the parent's child list, with a warning exactly if the child
\* had a parent before.
LinkEntitiesCallByCall ==
  [][(op' = "link_entities" /\ Len(args') = 4 /\ ~is_built)
       => LET p == args'[1]
              c == args'[2]
          IN /\ (~IsRigidEntity(entities[p]) \/ ~IsRigidEntity(entities[c]))
                  => (exc' = ConfigError /\ UNCHANGED links)
             /\ exc' # NoExc => UNCHANGED links
             /\ exc' = NoExc
                  => \E P, C \in 1..Len(links) :
                       /\ links[P].entity = p /\ links[C].entity = c
                       /\ links'[C].parent_idx = links[P].idx
                       /\ Len(links'[P].child_idxs) = Len(links[P].child_idxs) + 1
                       /\ links'[P].child_idxs[Len(links'[P].child_idxs)] = links[C].idx
                       /\ (<<"warning">> \in RangeOf(calls')) <=> (links[C].parent_idx # -1)]_vars

\* C40: in every state the parent and child records of the links agree:
\* the index of a link stands in the child list of link P exactly if the
\* link's parent index is P's index, and it stands there at most once.
C40_ParentAndChildRecordsAgree ==
  \A P, C \in 1..Len(links) :
    /\ (IsChildEntry(links[P].child_idxs, links[C].idx) # {})
          <=> (links[C].parent_idx = links[P].idx)
    /\ Cardinality(IsChildEntry(links[P].child_idxs, links[C].idx)) <= 1

====
